---------------------------- MODULE Spec2Model ----------------------------
(***************************************************************************)
(* A model of the jax2tf conversion layer                                  *)
(* (src/jax/experimental/jax2tf/jax2tf.py): the thread-local conversion    *)
(* state and the scoped save/restore discipline of a top-level conversion, *)
(* the constant cache, the primitive registry and dispatch, the            *)
(* convolution converter without XLA, and the batched while-loop rewrite.  *)
(***************************************************************************)
EXTENDS Integers, Sequences, FiniteSets, TLC

(***************************************************************************)
(* Bounds of the model.                                                    *)
(***************************************************************************)
\* Deepest call stack explored (frames of converted_fun, _interpret_fun,
\* process_call, inside_call_tf, enclosing transformation).
MaxDepth == 5
\* Calls of converted_fun that get past the re-entrancy guard, per behaviour.
MaxConversions == 2
\* _interpret_fun scopes opened per behaviour.
MaxScopes == 3
\* Backend constants materialized per behaviour.
MaxTensors == 2
\* Threads that convert concurrently.
NThreads == 2

(***************************************************************************)
(* Thread-local conversion state (_ThreadLocalState) and the call stack.   *)
(***************************************************************************)
VARIABLES
  name_stack,               \* _thread_local_state.name_stack (a string)
  enable_xla,               \* _thread_local_state.enable_xla
  inside_call_tf,           \* _thread_local_state.inside_call_tf
  shape_env,                \* _thread_local_state.shape_env (set of bound dimension variables)
  include_xla_op_metadata,  \* _thread_local_state.include_xla_op_metadata
  constant_cache,           \* _thread_local_state.constant_cache
  stack,                    \* the Python call stack: the active scopes, innermost last
  exc,                      \* the exception in flight ("none" when there is none)
  refs,                     \* the constant objects the traced program holds a reference to
  addr,                     \* id() of every constant object ever allocated (0: not yet allocated)
  nconv, nscope, ntensor,   \* fresh identities handed out so far
  lifts,                    \* history: the memoized lifts done so far
  tf_impl,                  \* the primitives with a value-only converter (keys of tf_impl)
  tf_impl_with_avals,       \* the primitives with a metadata-aware converter
  last_op,                  \* history: the last dispatch by process_primitive
  eqn,                      \* the equation of the traced program that is dispatched
  while_args,               \* the arguments of _while: jaxprs, constants, initial carry
  while_pc,                 \* where the converted while loop is: "idle", "loop", "done"
  pred_b,                   \* the loop-carried batched condition
  carry,                    \* the loop-carried values
  iterations,               \* the iterations of tf.while_loop done so far
  thread_local_state,       \* _thread_local_state as seen by each of several threads
  threads,                  \* where each of the threads is in its conversion, and its locals
  cond_args,                \* the arguments of a call of _cond
  cond_out,                 \* what that call handed to tf.switch_case, and the branch run
  reduce_args,              \* the arguments of a call of a reduce_window converter
  reduce_out,               \* what that call handed to the windowed reduction
  call_args,                \* the arguments of a call of another function
  call_out                  \* the outcome of that call

tls == <<name_stack, enable_xla, inside_call_tf, shape_env,
         include_xla_op_metadata, constant_cache>>
heap == <<refs, addr>>
ids == <<nconv, nscope, ntensor>>
dispatch_state == <<tf_impl, tf_impl_with_avals, last_op, eqn>>
while_state == <<while_args, while_pc, pred_b, carry, iterations>>
thread_state == <<thread_local_state, threads>>
converter_calls == <<cond_args, cond_out, reduce_args, reduce_out,
                     call_args, call_out>>
vars == <<name_stack, enable_xla, inside_call_tf, shape_env,
          include_xla_op_metadata, constant_cache, stack, exc,
          refs, addr, nconv, nscope, ntensor, lifts,
          tf_impl, tf_impl_with_avals, last_op, eqn,
          while_args, while_pc, pred_b, carry, iterations,
          thread_local_state, threads,
          cond_args, cond_out, reduce_args, reduce_out, call_args, call_out>>

\* constant_cache = None: no cache, outside every conversion scope.
NoCache == [none |-> TRUE, entries |-> {}]
\* constant_cache = {}: a new, empty cache.
EmptyCache == [none |-> FALSE, entries |-> {}]

\* The constant objects of the traced program and the values id() can take.
Objs == {"o1", "o2"}
Addrs == {1, 2}
\* The environments the shape solver can return: none or one dimension variable.
ShapeEnvs == {{}, {"b"}}
\* Target dtypes of a lift; float0 is the zero-sized gradient placeholder.
DTypes == {"float32", "float0"}
\* What a cache entry keeps alive when it does not keep the lifted object:
\* the np.zeros array made for a float0 constant.
ZerosArray == "np.zeros"

Top == stack[Len(stack)]
Pop == SubSeq(stack, 1, Len(stack) - 1)
Push(f) == Append(stack, f)
ReplaceTop(f) == [stack EXCEPT ![Len(stack)] = f]

\* core.trace_state_clean(): no main trace is on JAX's trace stack, neither a
\* TensorFlowTrace (new_base_main in _interpret_fun) nor another transformation's.
trace_state_clean ==
  \A i \in 1..Len(stack) : stack[i].kind \notin {"_interpret_fun", "transformation"}

\* util.wrap_name and util.extend_name_stack, as called by convert and process_call.
wrap_name(name, transform_name) == transform_name \o "(" \o name \o ")"
extend_name_stack(stk, name) == stk \o name \o "/"

\* The name stack entered by _extended_name_stack(extra_name_stack).
extended_name_stack(extra_name_stack) ==
  IF extra_name_stack = "" THEN name_stack
  ELSE IF name_stack = "" THEN extra_name_stack
  ELSE extend_name_stack(name_stack, extra_name_stack)

\* The four scoped fields a conversion saves and restores, as a snapshot.
ScopedFields ==
  [enable_xla |-> enable_xla,
   include_xla_op_metadata |-> include_xla_op_metadata,
   name_stack |-> name_stack,
   constant_cache |-> constant_cache]

Threads == 1..NThreads

\* A value of a field of _thread_local_state with the thread that wrote it
\* (0: written by _ThreadLocalState.__init__).
Written(v, t) == [val |-> v, by |-> t]

\* _ThreadLocalState.__init__, run for each thread at its first access.
ThreadLocalInit ==
  [name_stack |-> Written("", 0),
   enable_xla |-> Written(TRUE, 0),
   shape_env |-> Written({}, 0),
   include_xla_op_metadata |-> Written(TRUE, 0),
   constant_cache |-> Written(NoCache, 0)]

\* A thread that is not converting.
IdleThread ==
  [pc |-> "idle", enable_xla |-> TRUE, shapeenv |-> {},
   prev_enable_xla |-> [bound |-> FALSE, val |-> FALSE],
   prev_include_xla_op_metadata |-> [bound |-> FALSE, val |-> FALSE],
   prev_constant_cache |-> NoCache, prev_name_stack |-> "",
   raised |-> "none"]

\* No call of a converter.
NoCall == [called |-> FALSE]

InitConversion ==
  /\ cond_out = NoCall
  /\ reduce_out = NoCall
  /\ call_out = NoCall
  /\ thread_local_state = [t \in Threads |-> ThreadLocalInit]
  /\ threads = [t \in Threads |-> IdleThread]
  /\ name_stack = ""
  /\ enable_xla = TRUE
  /\ inside_call_tf = FALSE
  /\ shape_env = {}
  /\ include_xla_op_metadata = TRUE
  /\ constant_cache = NoCache
  /\ stack = <<>>
  /\ exc = "none"
  /\ refs = {"o1"}
  /\ addr = [o \in Objs |-> IF o = "o1" THEN 1 ELSE 0]
  /\ nconv = 0 /\ nscope = 0 /\ ntensor = 0
  /\ lifts = {}
  /\ tf_impl = {"add", "sort"}
  /\ tf_impl_with_avals = {"conv_general_dilated"}
  /\ last_op = [primitive |-> "none"]
  /\ while_pc = "idle"
  /\ pred_b = <<>>
  /\ carry = <<>>
  /\ iterations = 0

\* No equation: the traced program applies no primitive.
NoEqn == [primitive |-> "none"]
\* No while loop in the traced program.
NoWhile == [cond_jaxpr |-> "none"]

Init ==
  /\ InitConversion
  /\ eqn = NoEqn
  /\ while_args = NoWhile
  /\ cond_args = NoCall
  /\ reduce_args = NoCall
  /\ call_args = NoCall


(***************************************************************************)
(* The constant objects: which are alive, and what a lift does.            *)
(***************************************************************************)
\* Every cache that still exists: the current one and those saved by the
\* enclosing _interpret_fun scopes.
Caches ==
  {constant_cache} \cup
  {stack[i].prev_constant_cache :
     i \in {j \in 1..Len(stack) : stack[j].kind = "_interpret_fun"}}

\* An object is alive while the program or some cache entry refers to it.
Alive(o) ==
  \/ o \in refs
  \/ \E c \in Caches : \E e \in c.entries : e.val = o

\* _to_tf_dtype: float0 is represented in TF as int32 (_tf_np_dtype_for_float0).
to_tf_dtype(jax_dtype) == IF jax_dtype = "float0" THEN "int32" ELSE jax_dtype

\* What a cache entry for `val` keeps alive: for float0 `val` is rebound to a
\* new np.zeros array before the entry is stored.
Kept(val, jax_dtype) == IF jax_dtype = "float0" THEN ZerosArray ELSE val

\* Whether the lift consults and fills the cache.
UsesCacheNever(memoize_constants) == FALSE
UsesCache(memoize_constants) == memoize_constants /\ ~constant_cache.none

\* _tfval_to_tensor_jax_dtype on a constant (not a tf.Tensor): the tensor it
\* returns and the cache it leaves. A tensor records the object it was
\* materialized from.
tfval_to_tensor_jax_dtype(val, jax_dtype, memoize_constants) ==
  LET const_key == <<addr[val], jax_dtype>>
      found == IF UsesCache(memoize_constants)
               THEN {e \in constant_cache.entries : e.key = const_key}
               ELSE {}
      new_tf == [id |-> ntensor + 1, src |-> val, dtype |-> to_tf_dtype(jax_dtype)]
  IN IF found # {}
     THEN [tf_val |-> (CHOOSE e \in found : TRUE).tf_val,
           cache |-> constant_cache, fresh |-> FALSE]
     ELSE [tf_val |-> new_tf,
           cache |-> IF UsesCache(memoize_constants)
                     THEN [constant_cache EXCEPT !.entries =
                             {e \in @ : e.key # const_key} \cup
                             {[key |-> const_key,
                               val |-> Kept(val, jax_dtype),
                               tf_val |-> new_tf]}]
                     ELSE constant_cache,
           fresh |-> TRUE]

(***************************************************************************)
(* The frames of the call stack.                                           *)
(***************************************************************************)
Unbound == [bound |-> FALSE, val |-> FALSE]
Bound(v) == [bound |-> TRUE, val |-> v]

\* The innermost converted_fun / _interpret_fun frame (0 when there is none).
InnermostOf(kind) ==
  LET S == {i \in 1..Len(stack) : stack[i].kind = kind}
  IN IF S = {} THEN 0 ELSE CHOOSE i \in S : \A j \in S : j <= i
CurrentConversion ==
  IF InnermostOf("converted_fun") = 0 THEN 0
  ELSE stack[InnermostOf("converted_fun")].id
CurrentScope ==
  IF InnermostOf("_interpret_fun") = 0 THEN 0
  ELSE stack[InnermostOf("_interpret_fun")].id

\* The traced function's body runs: the top scope is an interpretation context.
InBody ==
  /\ exc = "none"
  /\ stack # <<>>
  /\ Top.kind \in {"_interpret_fun", "process_call"}

\* Code outside jax2tf is running and may call a converted function or call_tf.
InCallerCode ==
  /\ exc = "none"
  /\ IF stack = <<>> THEN TRUE
     ELSE Top.kind \in {"_interpret_fun", "process_call",
                        "inside_call_tf", "transformation"}

(***************************************************************************)
(* convert.converted_fun                                                   *)
(***************************************************************************)
\* The guard of converted_fun: a conversion inside another transformation is
\* refused unless it is made from inside a call_tf.
GuardIgnoringCallTf == ~trace_state_clean
ReentrancyGuard == ~trace_state_clean /\ ~inside_call_tf

\* The body of converted_fun starts at the argument check; a body that
\* starts at the shape solver.
StartsAtSolver == "args_to_avals"
FirstStep == "check_arg"

\* A call of a converted function, up to the re-entrancy guard.
\*   enable_xla_arg: the enable_xla argument of convert
\*   args_ok: whether _is_tfval holds of every leaf of the arguments
\*   grad_of: for the call made by converted_grad_fn, the arguments of the
\*            convert that attached the gradient (history)
converted_fun_of(enable_xla_arg, args_ok, grad_of) ==
  /\ InCallerCode
  /\ IF ReentrancyGuard
     THEN /\ exc' = "ValueError"
          /\ UNCHANGED <<tls, stack, heap, ids, lifts, dispatch_state, while_state, thread_state,
                 converter_calls>>
     ELSE /\ Len(stack) < MaxDepth
          /\ nconv < MaxConversions
          /\ nconv' = nconv + 1
          /\ stack' = Push([kind |-> "converted_fun", pc |-> FirstStep,
                            id |-> nconv + 1,
                            args_ok |-> args_ok,
                            grad_of |-> grad_of,
                            enable_xla |-> enable_xla_arg,
                            shapeenv |-> {},
                            prev_enable_xla |-> Unbound,
                            prev_include_xla_op_metadata |-> Unbound,
                            entry |-> ScopedFields])
          /\ UNCHANGED <<tls, exc, heap, nscope, ntensor, lifts, dispatch_state, while_state, thread_state,
                 converter_calls>>

NoPrimal == [is_grad |-> FALSE]
converted_fun(enable_xla_arg, args_ok) ==
  converted_fun_of(enable_xla_arg, args_ok, NoPrimal)

AtPc(pc) ==
  /\ exc = "none"
  /\ stack # <<>>
  /\ Top.kind = "converted_fun"
  /\ Top.pc = pc

\* tree_map(check_arg, args): TypeError for an argument that is not a TfVal.
check_arg ==
  /\ AtPc("check_arg")
  /\ IF Top.args_ok
     THEN /\ stack' = ReplaceTop([Top EXCEPT !.pc = "args_to_avals"])
          /\ UNCHANGED exc
     ELSE /\ exc' = "TypeError"
          /\ UNCHANGED stack
  /\ UNCHANGED <<tls, heap, ids, lifts, dispatch_state, while_state, thread_state,
                 converter_calls>>

\* _args_to_avals_and_env: the abstract values and the solver's environment.
\* The arguments were cast by _tfval_to_tensor_jax_dtype without memoization,
\* which leaves the constant cache alone.
\*   shapeenv: what shape_poly.solve_dim_equations returns for the arguments
args_to_avals_and_env(shapeenv) ==
  /\ AtPc("args_to_avals")
  /\ stack' = ReplaceTop([Top EXCEPT !.pc = "try", !.shapeenv = shapeenv])
  /\ \A o \in refs :
       tfval_to_tensor_jax_dtype(o, "float32", FALSE).cache = constant_cache
  /\ UNCHANGED <<tls, exc, heap, ids, lifts, dispatch_state, while_state, thread_state,
                 converter_calls>>

\* The head of the try block: the assertion on shape_env, then the three
\* assignments that save and set enable_xla, include_xla_op_metadata, shape_env.
\* An entry of the try block that leaves include_xla_op_metadata alone.
enter_try_keeps_metadata ==
  /\ AtPc("try")
  /\ IF shape_env # {}
     THEN /\ exc' = "AssertionError"
          /\ stack' = ReplaceTop([Top EXCEPT !.pc = "in_try"])
          /\ UNCHANGED tls
     ELSE /\ enable_xla' = Top.enable_xla
          /\ shape_env' = Top.shapeenv
          /\ stack' = ReplaceTop([Top EXCEPT
                 !.pc = "in_try",
                 !.prev_enable_xla = Bound(enable_xla),
                 !.prev_include_xla_op_metadata = Bound(include_xla_op_metadata)])
          /\ UNCHANGED <<name_stack, inside_call_tf, constant_cache, exc,
                         include_xla_op_metadata>>
  /\ UNCHANGED <<heap, ids, lifts, dispatch_state, while_state, thread_state,
                 converter_calls>>
enter_try ==
  /\ AtPc("try")
  /\ IF shape_env # {}
     THEN /\ exc' = "AssertionError"
          /\ stack' = ReplaceTop([Top EXCEPT !.pc = "in_try"])
          /\ UNCHANGED tls
     ELSE /\ enable_xla' = Top.enable_xla
          /\ include_xla_op_metadata' = FALSE
          /\ shape_env' = Top.shapeenv
          /\ stack' = ReplaceTop([Top EXCEPT
                 !.pc = "in_try",
                 !.prev_enable_xla = Bound(enable_xla),
                 !.prev_include_xla_op_metadata = Bound(include_xla_op_metadata)])
          /\ UNCHANGED <<name_stack, inside_call_tf, constant_cache, exc>>
  /\ UNCHANGED <<heap, ids, lifts, dispatch_state, while_state, thread_state,
                 converter_calls>>

FinallyKeepsEnableXla(f) ==
  [shape_env |-> {}, enable_xla |-> enable_xla,
   include_xla_op_metadata |->
     IF f.prev_enable_xla.bound THEN f.prev_include_xla_op_metadata.val
     ELSE include_xla_op_metadata,
   exc |-> IF f.prev_enable_xla.bound THEN exc ELSE "UnboundLocalError"]
FinallyKeepsShapeEnv(f) ==
  [shape_env |-> shape_env,
   enable_xla |-> IF f.prev_enable_xla.bound THEN f.prev_enable_xla.val
                  ELSE enable_xla,
   include_xla_op_metadata |->
     IF f.prev_enable_xla.bound THEN f.prev_include_xla_op_metadata.val
     ELSE include_xla_op_metadata,
   exc |-> IF f.prev_enable_xla.bound THEN exc ELSE "UnboundLocalError"]
FinallyRestoresDefaults(f) ==
  [shape_env |-> {}, enable_xla |-> TRUE, include_xla_op_metadata |-> TRUE,
   exc |-> exc]
\* The finally block of converted_fun. With the saved values unbound (the
\* assertion failed before they were assigned) the second statement raises.
FinallyResult(f) ==
  IF f.prev_enable_xla.bound
  THEN [shape_env |-> {},
        enable_xla |-> f.prev_enable_xla.val,
        include_xla_op_metadata |-> f.prev_include_xla_op_metadata.val,
        exc |-> exc]
  ELSE [shape_env |-> {},
        enable_xla |-> enable_xla,
        include_xla_op_metadata |-> include_xla_op_metadata,
        exc |-> "UnboundLocalError"]

finally_converted_fun ==
  /\ AtPc("finally")
  /\ shape_env' = FinallyResult(Top).shape_env
  /\ enable_xla' = FinallyResult(Top).enable_xla
  /\ include_xla_op_metadata' = FinallyResult(Top).include_xla_op_metadata
  /\ stack' = ReplaceTop([Top EXCEPT !.pc = "unbox"])
  /\ UNCHANGED <<name_stack, inside_call_tf, constant_cache, exc,
                 heap, ids, lifts, dispatch_state, while_state, thread_state,
                 converter_calls>>

\* tf.identity on the outputs, tree_unflatten, return.
return_converted_fun ==
  /\ AtPc("unbox")
  /\ stack' = Pop
  /\ UNCHANGED <<tls, exc, heap, ids, lifts, dispatch_state, while_state, thread_state,
                 converter_calls>>

(***************************************************************************)
(* _interpret_fun and the nested scopes                                    *)
(***************************************************************************)
\* The name stack built by convert for a function named f.
ConvertNameStack == extend_name_stack("", wrap_name("f", "jax2tf"))

\* The cache a new _interpret_fun scope starts with.
InheritedCache == constant_cache
NewScopeCache == EmptyCache

\* Entry of _interpret_fun: save the cache and start a new one, new_base_main,
\* _extended_name_stack(extra_name_stack), new_sublevel.
EnterInterpretFun(extra_name_stack, below) ==
  /\ nscope < MaxScopes
  /\ nscope' = nscope + 1
  /\ stack' = Append(below,
                     [kind |-> "_interpret_fun", id |-> nscope + 1,
                      conv |-> CurrentConversion,
                      prev_constant_cache |-> constant_cache,
                      prev_name_stack |-> name_stack])
  /\ constant_cache' = NewScopeCache
  /\ name_stack' = extended_name_stack(extra_name_stack)

\* converted_fun calls _interpret_fun(flat_fun, args_flat, args_avals_flat, name_stack).
interpret_fun ==
  /\ AtPc("in_try")
  /\ EnterInterpretFun(ConvertNameStack,
                       ReplaceTop([Top EXCEPT !.pc = "interpreting"]))
  /\ UNCHANGED <<enable_xla, inside_call_tf, shape_env,
                 include_xla_op_metadata, exc, heap, nconv, ntensor,
                 lifts, dispatch_state, while_state, thread_state,
                 converter_calls>>

\* The name-stack suffixes under which the control-flow converters interpret
\* their sub-computations (_cond, _while, _batched_cond_while, scan).
SubComputationNames == {"branch_0_fun", "while/body"}

\* A control-flow converter calls _interpret_jaxpr on a sub-computation.
interpret_jaxpr(extra_name_stack) ==
  /\ InBody
  /\ Len(stack) < MaxDepth
  /\ EnterInterpretFun(extra_name_stack, stack)
  /\ UNCHANGED <<enable_xla, inside_call_tf, shape_env,
                 include_xla_op_metadata, exc, heap, nconv, ntensor,
                 lifts, dispatch_state, while_state, thread_state,
                 converter_calls>>

\* Normal return of _interpret_fun: the finally clause restores the cache,
\* _extended_name_stack restores the name stack.
return_interpret_fun ==
  /\ exc = "none"
  /\ stack # <<>>
  /\ Top.kind = "_interpret_fun"
  /\ constant_cache' = Top.prev_constant_cache
  /\ name_stack' = Top.prev_name_stack
  /\ stack' = IF Pop[Len(Pop)].kind = "converted_fun"
              THEN [Pop EXCEPT ![Len(Pop)].pc = "finally"]
              ELSE Pop
  /\ UNCHANGED <<enable_xla, inside_call_tf, shape_env,
                 include_xla_op_metadata, exc, heap, ids, lifts, dispatch_state, while_state, thread_state,
                 converter_calls>>

\* The call primitives process_call inlines and the name they carry.
CallPrimitives == {"named_call", "xla_call", "core_call"}
CallNameStack(call_primitive) ==
  IF call_primitive = "named_call" THEN wrap_name("g", "named")
  ELSE IF call_primitive = "xla_call" THEN wrap_name("g", "jit")
  ELSE ""

\* TensorFlowTrace.process_call: the sub-function is evaluated in place under
\* _extended_name_stack(extra_name_stack) and new_sublevel.
\*   fun, tracers: the function evaluated by fun.call_wrapped(*vals)
\*   via: the method of the trace through which the call arrived (history)
process_call_via(call_primitive, fun, tracers, via) ==
  /\ InBody
  /\ Len(stack) < MaxDepth
  /\ stack' = Push([kind |-> "process_call",
                    call_primitive |-> call_primitive,
                    fun |-> fun, tracers |-> tracers, via |-> via,
                    prev_name_stack |-> name_stack])
  /\ name_stack' = extended_name_stack(CallNameStack(call_primitive))
  /\ UNCHANGED <<enable_xla, inside_call_tf, shape_env,
                 include_xla_op_metadata, constant_cache, exc, heap, ids,
                 lifts, dispatch_state, while_state, thread_state,
                 converter_calls>>

PlainCall == [method |-> "process_call"]
process_call(call_primitive) ==
  process_call_via(call_primitive, "g", <<>>, PlainCall)

\* A return that leaves the name stack as the call made it.
return_keeps_name_stack ==
  /\ exc = "none"
  /\ stack # <<>>
  /\ Top.kind = "process_call"
  /\ stack' = Pop
  /\ UNCHANGED <<tls, exc, heap, ids, lifts, dispatch_state, while_state,
                 thread_state, converter_calls>>
return_process_call ==
  /\ exc = "none"
  /\ stack # <<>>
  /\ Top.kind = "process_call"
  /\ name_stack' = Top.prev_name_stack
  /\ stack' = Pop
  /\ UNCHANGED <<enable_xla, inside_call_tf, shape_env,
                 include_xla_op_metadata, constant_cache, exc, heap, ids,
                 lifts, dispatch_state, while_state, thread_state,
                 converter_calls>>

\* The context manager inside_call_tf(): entry.
enter_inside_call_tf ==
  /\ InCallerCode
  /\ Len(stack) < MaxDepth
  /\ stack' = Push([kind |-> "inside_call_tf", prev |-> inside_call_tf])
  /\ inside_call_tf' = TRUE
  /\ UNCHANGED <<name_stack, enable_xla, shape_env, include_xla_op_metadata,
                 constant_cache, exc, heap, ids, lifts, dispatch_state, while_state, thread_state,
                 converter_calls>>

\* The context manager inside_call_tf(): normal exit.
exit_inside_call_tf ==
  /\ exc = "none"
  /\ stack # <<>>
  /\ Top.kind = "inside_call_tf"
  /\ inside_call_tf' = Top.prev
  /\ stack' = Pop
  /\ UNCHANGED <<name_stack, enable_xla, shape_env, include_xla_op_metadata,
                 constant_cache, exc, heap, ids, lifts, dispatch_state, while_state, thread_state,
                 converter_calls>>

\* Another JAX transformation (jit, grad, vmap) starts tracing: its main trace
\* is on the trace stack until it ends.
enter_transformation ==
  /\ exc = "none"
  /\ stack = <<>>
  /\ stack' = Push([kind |-> "transformation"])
  /\ UNCHANGED <<tls, exc, heap, ids, lifts, dispatch_state, while_state, thread_state,
                 converter_calls>>

exit_transformation ==
  /\ exc = "none"
  /\ stack # <<>>
  /\ Top.kind = "transformation"
  /\ stack' = Pop
  /\ UNCHANGED <<tls, exc, heap, ids, lifts, dispatch_state, while_state, thread_state,
                 converter_calls>>

(***************************************************************************)
(* Exceptions: every scope's exit handler runs as the exception passes.    *)
(***************************************************************************)
unwind ==
  /\ exc # "none"
  /\ stack # <<>>
  /\ stack' = Pop
  /\ IF Top.kind = "converted_fun" /\ Top.pc \in {"in_try", "interpreting"}
     THEN /\ shape_env' = FinallyResult(Top).shape_env
          /\ enable_xla' = FinallyResult(Top).enable_xla
          /\ include_xla_op_metadata' = FinallyResult(Top).include_xla_op_metadata
          /\ exc' = FinallyResult(Top).exc
          /\ UNCHANGED <<name_stack, inside_call_tf, constant_cache>>
     ELSE IF Top.kind = "_interpret_fun"
     THEN /\ constant_cache' = Top.prev_constant_cache
          /\ name_stack' = Top.prev_name_stack
          /\ UNCHANGED <<enable_xla, inside_call_tf, shape_env,
                         include_xla_op_metadata, exc>>
     ELSE IF Top.kind = "process_call"
     THEN /\ name_stack' = Top.prev_name_stack
          /\ UNCHANGED <<enable_xla, inside_call_tf, shape_env,
                         include_xla_op_metadata, constant_cache, exc>>
     ELSE IF Top.kind = "inside_call_tf"
     THEN /\ inside_call_tf' = Top.prev
          /\ UNCHANGED <<name_stack, enable_xla, shape_env,
                         include_xla_op_metadata, constant_cache, exc>>
     ELSE UNCHANGED <<tls, exc>>
  /\ UNCHANGED <<heap, ids, lifts, dispatch_state, while_state, thread_state,
                 converter_calls>>

\* The exception reaches the caller of the outermost call.
propagate_to_caller ==
  /\ exc # "none"
  /\ stack = <<>>
  /\ exc' = "none"
  /\ UNCHANGED <<tls, stack, heap, ids, lifts, dispatch_state, while_state, thread_state,
                 converter_calls>>

(***************************************************************************)
(* The traced function's body: constants and lifts.                        *)
(***************************************************************************)
\* The program creates a constant object; id() gives it an address no live
\* object has.
allocate(o, a) ==
  /\ exc = "none"
  /\ addr[o] = 0
  /\ \A q \in Objs : Alive(q) => addr[q] # a
  /\ addr' = [addr EXCEPT ![o] = a]
  /\ refs' = refs \cup {o}
  /\ UNCHANGED <<tls, stack, exc, ids, lifts, dispatch_state, while_state, thread_state,
                 converter_calls>>

\* The program drops its reference to a constant object.
drop(o) ==
  /\ exc = "none"
  /\ o \in refs
  /\ refs' = refs \ {o}
  /\ UNCHANGED <<addr, tls, stack, exc, ids, lifts, dispatch_state, while_state, thread_state,
                 converter_calls>>

\* TensorFlowTracer.__init__ on a constant value: the memoized lift
\* _tfval_to_tensor_jax_dtype(val, aval.dtype, memoize_constants=True).
lift_constant(val, jax_dtype) ==
  /\ InBody
  /\ val \in refs
  /\ LET r == tfval_to_tensor_jax_dtype(val, jax_dtype, TRUE)
     IN /\ r.fresh => ntensor < MaxTensors
        /\ ntensor' = IF r.fresh THEN ntensor + 1 ELSE ntensor
        /\ constant_cache' = r.cache
        /\ lifts' = lifts \cup {[conv |-> CurrentConversion,
                                 scope |-> CurrentScope,
                                 val |-> val, jax_dtype |-> jax_dtype,
                                 tf_val |-> r.tf_val, fresh |-> r.fresh]}
  /\ UNCHANGED <<name_stack, enable_xla, inside_call_tf, shape_env,
                 include_xla_op_metadata, stack, exc, heap, nconv, nscope,
                 dispatch_state, while_state, thread_state,
                 converter_calls>>

\* A converter raises while a primitive is dispatched.
converter_raises ==
  /\ InBody
  /\ exc' = "NotImplementedError"
  /\ UNCHANGED <<tls, stack, heap, ids, lifts, dispatch_state, while_state, thread_state,
                 converter_calls>>

Next ==
  \/ \E x \in BOOLEAN, ok \in BOOLEAN : converted_fun(x, ok)
  \/ check_arg
  \/ \E env \in ShapeEnvs : args_to_avals_and_env(env)
  \/ enter_try
  \/ interpret_fun
  \/ \E n \in SubComputationNames : interpret_jaxpr(n)
  \/ return_interpret_fun
  \/ finally_converted_fun
  \/ return_converted_fun
  \/ \E c \in CallPrimitives : process_call(c)
  \/ return_process_call
  \/ enter_inside_call_tf
  \/ exit_inside_call_tf
  \/ enter_transformation
  \/ exit_transformation
  \/ unwind
  \/ propagate_to_caller
  \/ converter_raises

Spec == Init /\ [][Next]_vars

\* The conversions with the constants they lift: nested sub-interpretations,
\* conversions nested through call_tf, failing conversions.
NextCache ==
  \/ \E x \in {TRUE}, ok \in BOOLEAN : converted_fun(x, ok)
  \/ check_arg
  \/ \E env \in {{}} : args_to_avals_and_env(env)
  \/ enter_try
  \/ interpret_fun
  \/ \E n \in {"branch_0_fun"} : interpret_jaxpr(n)
  \/ return_interpret_fun
  \/ finally_converted_fun
  \/ return_converted_fun
  \/ enter_inside_call_tf
  \/ exit_inside_call_tf
  \/ unwind
  \/ propagate_to_caller
  \/ \E o \in Objs, d \in {"float32"} : lift_constant(o, d)
  \/ converter_raises

SpecCache == Init /\ [][NextCache]_vars

\* One conversion at a time, with the program creating and dropping its
\* constants while the conversion lifts them.
NextGC ==
  \/ \E x \in {TRUE}, ok \in {TRUE} : converted_fun(x, ok)
  \/ check_arg
  \/ \E env \in {{}} : args_to_avals_and_env(env)
  \/ enter_try
  \/ interpret_fun
  \/ \E n \in {"branch_0_fun"} : interpret_jaxpr(n)
  \/ return_interpret_fun
  \/ finally_converted_fun
  \/ return_converted_fun
  \/ \E o \in Objs, a \in Addrs : allocate(o, a)
  \/ \E o \in Objs : drop(o)
  \/ \E o \in Objs, d \in DTypes : lift_constant(o, d)

SpecGC == Init /\ [][NextGC]_vars

(***************************************************************************)
(* Properties of the scoped thread-local state.                            *)
(***************************************************************************)
\* C3: on every exit path of a top-level conversion call (normal return, an
\* error raised during interpretation, an error raised before interpretation
\* starts, the refusal by the re-entrancy guard), enable_xla,
\* include_xla_op_metadata, name_stack and constant_cache hold after the call
\* the values they held immediately before it.
C3_ScopedFieldsRestored ==
  [][ /\ (stack # <<>> /\ Top.kind = "converted_fun" /\ stack' = Pop)
         => ScopedFields' = Top.entry
      /\ (exc = "none" /\ exc' = "ValueError")
         => ScopedFields' = ScopedFields ]_vars

\* A conversion nested in call_tf inside a conversion with enable_xla=False
\* failed during interpretation, and the error left every scope.
C3_Witness ==
  /\ stack = <<>>
  /\ exc = "NotImplementedError"
  /\ nconv = 2
  /\ nscope >= 2

\* C10: a conversion call made while a trace is active raises ValueError if and
\* only if inside_call_tf is False; when it raises, no thread-local field has
\* been modified and no interpretation context has been created; when
\* inside_call_tf is True the call proceeds past the guard.
C10_ReentrancyGuard ==
  [][ (exc = "none" /\ ~trace_state_clean) =>
        /\ (exc' = "ValueError") =>
              /\ ~inside_call_tf
              /\ UNCHANGED <<tls, stack, nconv, nscope>>
        /\ (nconv' # nconv) => (inside_call_tf /\ exc' = "none") ]_vars

\* A conversion got past the guard inside call_tf while an enclosing
\* conversion was interpreting.
C10_Witness ==
  /\ stack # <<>>
  /\ Top.kind = "converted_fun"
  /\ inside_call_tf
  /\ ~trace_state_clean

(***************************************************************************)
(* Properties of the constant cache.                                       *)
(***************************************************************************)
\* C4 as stated: within one top-level conversion, two lifts of the identical
\* constant with the same dtype return the same backend constant, at any
\* nesting depth of sub-interpretation.
C4_SharedAcrossNesting ==
  \A l1 \in lifts : \A l2 \in lifts :
    (l1.conv = l2.conv /\ l1.val = l2.val /\ l1.jax_dtype = l2.jax_dtype)
      => l1.tf_val = l2.tf_val

\* C4 amended: within one _interpret_fun scope, two memoized lifts of the
\* identical constant with the same dtype return the same backend constant.
C4_SharedWithinScope ==
  \A l1 \in lifts : \A l2 \in lifts :
    (l1.scope = l2.scope /\ l1.val = l2.val /\ l1.jax_dtype = l2.jax_dtype)
      => l1.tf_val = l2.tf_val

\* The same constant was lifted twice in one scope: once materialized, once
\* taken from the cache.
C4_Witness ==
  \E l1 \in lifts : \E l2 \in lifts :
    /\ l1.scope = l2.scope /\ l1.val = l2.val /\ l1.jax_dtype = l2.jax_dtype
    /\ l1.fresh /\ ~l2.fresh

\* C5: the cache is empty when a conversion starts interpreting; outside
\* every conversion constant_cache is None; a backend constant returned by a
\* lift in one conversion is never returned by a lift in another; and the
\* current cache holds only entries written by the conversion it belongs to.
C5_CachePerConversion ==
  /\ (stack # <<>> /\ Top.kind = "_interpret_fun"
        /\ ~\E l \in lifts : l.scope = Top.id)
       => constant_cache = EmptyCache
  /\ (CurrentConversion = 0) => constant_cache = NoCache
  /\ \A l1 \in lifts : \A l2 \in lifts :
       l1.tf_val.id = l2.tf_val.id => l1.conv = l2.conv
  /\ \A e \in constant_cache.entries : \A l \in lifts :
       l.tf_val.id = e.tf_val.id
         => l.conv = stack[InnermostOf("_interpret_fun")].conv

\* Two conversions, one of them after or inside the other, lifted the same
\* constant, and all scopes have been left.
C5_Witness ==
  /\ stack = <<>>
  /\ \E l1 \in lifts : \E l2 \in lifts :
       l1.conv # l2.conv /\ l1.val = l2.val /\ l1.jax_dtype = l2.jax_dtype

\* C6 as stated: every cache entry keeps the lifted object alive, for every
\* dtype including float0, so a lift never returns a constant materialized
\* from a different object.
C6_NoFalseHit ==
  /\ \A l \in lifts : l.tf_val.src = l.val

(***************************************************************************)
(* The primitive registry and TensorFlowTrace.process_primitive.           *)
(***************************************************************************)
\* The primitives of the model: add (value-only converter), sort (value-only,
\* multiple results), conv_general_dilated (metadata-aware converter), clz
\* (in tf_not_yet_impl: no converter).
Prims == {"add", "sort", "conv_general_dilated", "clz"}
multiple_results(primitive) == primitive = "sort"

\* Abstract values of the operands: dtype and rank.
Avals == [dtype : {"float32", "int32"}, rank : {2, 3, 6}]
\* The number of operands of a sort.
MaxOperands == 3
arity(primitive) ==
  IF primitive = "sort" THEN 1..MaxOperands
  ELSE IF primitive = "clz" THEN {1} ELSE {2}

\* tf_impl[p] = converter, tf_impl_with_avals[p] = converter.
register(registry, primitive) ==
  /\ exc = "none"
  /\ stack = <<>>
  /\ IF registry = "tf_impl"
     THEN /\ primitive \notin tf_impl
          /\ tf_impl' = tf_impl \cup {primitive}
          /\ UNCHANGED tf_impl_with_avals
     ELSE /\ primitive \notin tf_impl_with_avals
          /\ tf_impl_with_avals' = tf_impl_with_avals \cup {primitive}
          /\ UNCHANGED tf_impl
  /\ UNCHANGED <<tls, stack, exc, heap, ids, lifts, last_op, eqn, while_state, thread_state,
                 converter_calls>>

NoError == [type |-> "none", primitive_name |-> "", extra_msg |-> ""]

\* TensorFlowTrace.get_primitive_impl: the converter and whether it takes the
\* abstract values, or the error raised.
get_primitive_impl_avals_first(p) ==
  IF p \in tf_impl_with_avals
  THEN [impl |-> <<"tf_impl_with_avals", p>>, impl_needs_avals |-> TRUE,
        error |-> NoError]
  ELSE IF p \in tf_impl
  THEN [impl |-> <<"tf_impl", p>>, impl_needs_avals |-> FALSE,
        error |-> NoError]
  ELSE [impl |-> <<>>, impl_needs_avals |-> FALSE,
        error |-> [type |-> "NotImplementedError", primitive_name |-> p,
                   extra_msg |-> "not implemented"]]
get_primitive_impl(p) ==
  IF p \in tf_impl
  THEN [impl |-> <<"tf_impl", p>>, impl_needs_avals |-> FALSE,
        error |-> NoError]
  ELSE IF p \in tf_impl_with_avals
  THEN [impl |-> <<"tf_impl_with_avals", p>>, impl_needs_avals |-> TRUE,
        error |-> NoError]
  ELSE [impl |-> <<>>, impl_needs_avals |-> FALSE,
        error |-> [type |-> "NotImplementedError", primitive_name |-> p,
                   extra_msg |-> "not implemented"]]

\* primitive.abstract_eval(*args_avals, **params): the abstract result, or the
\* sequence of abstract results of a multiple-results primitive (sort has one
\* result per operand).
abstract_eval(primitive, args_avals) ==
  IF multiple_results(primitive)
  THEN [i \in 1..Len(args_avals) |->
          [of |-> primitive, args |-> args_avals, result |-> i]]
  ELSE [of |-> primitive, args |-> args_avals, result |-> 0]

\* _xla_disabled_error(primitive_name, extra_msg): asserts that XLA is
\* disabled, then builds the NotImplementedError to raise.
xla_disabled_error(primitive_name, extra_msg) ==
  IF enable_xla
  THEN [type |-> "AssertionError", primitive_name |-> "", extra_msg |-> ""]
  ELSE [type |-> "NotImplementedError", primitive_name |-> primitive_name,
        extra_msg |-> extra_msg]

\* The parameters of conv_general_dilated that _try_tf_conv tests: strides and
\* dilations have one entry per spatial dimension (here all entries equal);
\* padding says which of lax.padtype_to_pads("VALID"), ("SAME") the given
\* padding equals; the dimension numbers are given by what is tested of them.
ConvParams ==
  [feature_group_count : {1, 2},
   batch_group_count : {1, 2},
   window_stride : {1, 2},
   lhs_dilation : {1, 2},
   rhs_dilation : {1, 2},
   preferred_element_type : {"None", "float32", "int32"},
   padding : {"VALID", "SAME", "OTHER"},
   rhs_spec_supported : BOOLEAN,
   lhs_spec : {"NHWC", "NCHW"},
   out_spec : {"NHWC", "NCHW"}]
NoParams == [feature_group_count |-> 0]
Ones(n) == [i \in 1..n |-> 1]
Repeat(x, n) == [i \in 1..n |-> x]

ConvError(msg) == xla_disabled_error("conv_general_dilated", msg)
ConvResult(error, op) == [error |-> error, backend_op |-> op]

\* _try_tf_conv without the test of feature_group_count.
try_tf_conv_no_group_check(lhs, c) ==
  LET nb_spatial_dimensions == lhs.rank - 2
  IN IF lhs.dtype \notin {"float16", "float32", "float64"}
     THEN ConvResult(ConvError("dtype"), "none")
     ELSE IF c.batch_group_count # 1
     THEN ConvResult(ConvError("batch_group_count"), "none")
     ELSE IF nb_spatial_dimensions < 1 \/ nb_spatial_dimensions > 3
     THEN ConvResult(ConvError("spatial dimensions"), "none")
     ELSE ConvResult(NoError, "tf.nn.convolution")

\* _try_tf_conv: the tests in the order of the code; the first that fails
\* raises the disabled-path error, and only when all pass is a TF convolution
\* op invoked.
try_tf_conv(lhs, c) ==
  LET nb_spatial_dimensions == lhs.rank - 2
      window_strides == Repeat(c.window_stride, nb_spatial_dimensions)
      lhs_dilation == Repeat(c.lhs_dilation, nb_spatial_dimensions)
      rhs_dilation == Repeat(c.rhs_dilation, nb_spatial_dimensions)
      no_dilation == Ones(nb_spatial_dimensions)
  IN IF lhs.dtype \notin {"float16", "float32", "float64"}
     THEN ConvResult(ConvError("dtype"), "none")
     ELSE IF c.feature_group_count # 1
     THEN ConvResult(ConvError("grouped convolutions"), "none")
     ELSE IF c.batch_group_count # 1
     THEN ConvResult(ConvError("batch_group_count"), "none")
     ELSE IF nb_spatial_dimensions < 1 \/ nb_spatial_dimensions > 3
     THEN ConvResult(ConvError("spatial dimensions"), "none")
     ELSE IF window_strides # Ones(nb_spatial_dimensions)
     THEN ConvResult(ConvError("window_strides"), "none")
     ELSE IF c.preferred_element_type # "None"
             /\ c.preferred_element_type # lhs.dtype
     THEN ConvResult(ConvError("preferred_element_type"), "none")
     \* convert_padding
     ELSE IF lhs_dilation # Ones(nb_spatial_dimensions)
     THEN ConvResult(ConvError("transposed convolution padding"), "none")
     ELSE IF c.padding \notin {"VALID", "SAME"}
     THEN ConvResult(ConvError("padding"), "none")
     \* convert_dim_nums
     ELSE IF ~c.rhs_spec_supported
     THEN ConvResult(ConvError("rhs shape format"), "none")
     ELSE IF c.lhs_spec # c.out_spec
     THEN ConvResult(ConvError("data format of lhs and output"), "none")
     ELSE IF c.lhs_spec # "NHWC"
     THEN ConvResult(ConvError("data format"), "none")
     \* convert_dilation_and_compute_result
     ELSE IF ~(lhs_dilation = no_dilation \/ rhs_dilation = no_dilation)
     THEN ConvResult(ConvError("both dilations"), "none")
     ELSE IF lhs_dilation = no_dilation
     THEN ConvResult(NoError, "tf.nn.convolution")
     ELSE ConvResult(NoError, "tf.nn.conv_transpose")

\* _conv_general_dilated: without XLA the TF realization is tried; with XLA
\* tfxla.conv is used (batch_group_count must be 1).
conv_general_dilated(lhs, c) ==
  IF ~enable_xla THEN try_tf_conv(lhs, c)
  ELSE IF c.batch_group_count # 1
  THEN ConvResult([type |-> "AssertionError", primitive_name |-> "",
                   extra_msg |-> ""], "none")
  ELSE ConvResult(NoError, "tfxla.conv")

\* _sort: needs XLA; tfxla.variadic_sort returns one result per operand.
\* A sort that does not look at enable_xla.
sort_always_xla(operands) ==
  [error |-> NoError, backend_op |-> "tfxla.variadic_sort",
   results |-> [i \in 1..Len(operands) |->
                  [by |-> "tfxla.variadic_sort", result |-> i]]]
sort(operands) ==
  IF ~enable_xla
  THEN [error |-> xla_disabled_error("sort", ""), backend_op |-> "none",
        results |-> <<>>]
  ELSE [error |-> NoError, backend_op |-> "tfxla.variadic_sort",
        results |-> [i \in 1..Len(operands) |->
                       [by |-> "tfxla.variadic_sort", result |-> i]]]

\* invoke_impl in process_primitive: the raw results of the converter found.
\* The converters of the model are _conv_general_dilated and _sort; any other
\* converter returns one value.
invoke_impl(lookup, primitive, args_avals, c) ==
  IF lookup.impl = <<"tf_impl_with_avals", "conv_general_dilated">>
  THEN LET r == conv_general_dilated(args_avals[1], c)
       IN [error |-> r.error, backend_op |-> r.backend_op,
           val_out |-> [by |-> r.backend_op, result |-> 0]]
  ELSE IF lookup.impl = <<"tf_impl", "sort">>
  THEN LET r == sort(args_avals)
       IN [error |-> r.error, backend_op |-> r.backend_op,
           val_out |-> r.results]
  ELSE [error |-> NoError, backend_op |-> "tf." \o primitive,
        val_out |-> [by |-> lookup.impl, result |-> 0]]

Min(a, b) == IF a <= b THEN a ELSE b

\* A boxing that pairs every raw result with the first abstract result.
box_with_first_aval(primitive, val_out, out_aval) ==
  IF multiple_results(primitive)
  THEN [i \in 1..Min(Len(val_out), Len(out_aval)) |->
          [val |-> val_out[i], aval |-> out_aval[1]]]
  ELSE <<[val |-> val_out, aval |-> out_aval]>>
\* The boxing of the raw results: zip(val_out, out_aval) for a
\* multiple-results primitive.
box(primitive, val_out, out_aval) ==
  IF multiple_results(primitive)
  THEN [i \in 1..Min(Len(val_out), Len(out_aval)) |->
          [val |-> val_out[i], aval |-> out_aval[i]]]
  ELSE <<[val |-> val_out, aval |-> out_aval]>>

\* TensorFlowTrace.process_primitive.
\* An order in which abstract_eval comes first.
abstract_eval_first == TRUE
\* Whether primitive.abstract_eval has been invoked when get_primitive_impl
\* returns or raises: the lookup is the first statement of process_primitive.
abstract_eval_before_lookup == FALSE

process_primitive(primitive, args_avals, c) ==
  /\ InBody
  /\ LET lookup == get_primitive_impl(primitive)
         out_aval == abstract_eval(primitive, args_avals)
         r == invoke_impl(lookup, primitive, args_avals, c)
         seen == [primitive |-> primitive,
                  in_tf_impl |-> primitive \in tf_impl,
                  in_tf_impl_with_avals |-> primitive \in tf_impl_with_avals,
                  enable_xla |-> enable_xla,
                  feature_group_count |-> c.feature_group_count,
                  op_metadata |-> FALSE, name_stack |-> "",
                  impl |-> lookup.impl,
                  impl_needs_avals |-> lookup.impl_needs_avals,
                  abstract_eval_called |-> abstract_eval_before_lookup,
                  out_aval |-> <<>>, backend_op |-> "none",
                  out |-> <<>>,
                  error |-> lookup.error]
     IN IF lookup.error.type # "none"
        THEN /\ exc' = lookup.error.type
             /\ last_op' = seen
        ELSE /\ exc' = r.error.type
             /\ last_op' =
                  [seen EXCEPT
                     !.abstract_eval_called = TRUE,
                     !.out_aval = out_aval,
                     !.op_metadata = include_xla_op_metadata,
                     !.name_stack = name_stack,
                     !.backend_op = r.backend_op,
                     !.error = r.error,
                     !.out = IF r.error.type = "none"
                             THEN box(primitive, r.val_out, out_aval)
                             ELSE <<>>]
  /\ UNCHANGED <<tls, stack, heap, ids, lifts, tf_impl, tf_impl_with_avals, eqn,
                 while_state, thread_state,
                 converter_calls>>

Eqn(primitive, args_avals, params) ==
  [primitive |-> primitive, args_avals |-> args_avals, params |-> params]

\* A plain and a grouped convolution that pass every other test of
\* _try_tf_conv.
PlainConv ==
  [feature_group_count |-> 1, batch_group_count |-> 1, window_stride |-> 1,
   lhs_dilation |-> 1, rhs_dilation |-> 1, preferred_element_type |-> "None",
   padding |-> "SAME", rhs_spec_supported |-> TRUE, lhs_spec |-> "NHWC",
   out_spec |-> "NHWC"]
GroupedConv == [PlainConv EXCEPT !.feature_group_count = 2]

\* The equations dispatched when the registry is exercised.
DispatchEqns ==
  {Eqn(pn[1], Repeat(a, pn[2]), NoParams) :
     pn \in {pn \in (Prims \ {"conv_general_dilated"}) \X (1..MaxOperands) :
               pn[2] \in arity(pn[1])},
     a \in Avals}
  \cup {Eqn("conv_general_dilated", <<a, a>>, c) :
          a \in Avals, c \in {PlainConv, GroupedConv}}
\* The convolutions dispatched when the convolution converter is exercised.
ConvEqns ==
  {Eqn("conv_general_dilated", <<a, a>>, c) : a \in Avals, c \in ConvParams}

InitDispatch ==
  /\ InitConversion
  /\ while_args = NoWhile
  /\ cond_args = NoCall
  /\ reduce_args = NoCall
  /\ call_args = NoCall
  /\ eqn \in DispatchEqns

InitConv ==
  /\ InitConversion
  /\ while_args = NoWhile
  /\ cond_args = NoCall
  /\ reduce_args = NoCall
  /\ call_args = NoCall
  /\ eqn \in ConvEqns

\* The registrations made after the import of the module.
Registrations ==
  {<<"tf_impl", "conv_general_dilated">>, <<"tf_impl_with_avals", "add">>,
   <<"tf_impl", "clz">>}

\* The interpretation of the traced program reaches its equation.
eval_eqn ==
  /\ eqn # NoEqn
  /\ process_primitive(eqn.primitive, eqn.args_avals, eqn.params)

\* One conversion at a time of a program with one equation, with converters
\* being registered between conversions.
NextDispatch ==
  \/ \E x \in BOOLEAN, ok \in BOOLEAN : converted_fun(x, ok)
  \/ check_arg
  \/ \E env \in {{}} : args_to_avals_and_env(env)
  \/ enter_try
  \/ interpret_fun
  \/ return_interpret_fun
  \/ finally_converted_fun
  \/ return_converted_fun
  \/ unwind
  \/ propagate_to_caller
  \/ \E r \in Registrations : register(r[1], r[2])
  \/ eval_eqn

SpecDispatch == InitDispatch /\ [][NextDispatch]_vars

\* One conversion at a time of a program with one convolution.
NextConv ==
  \/ \E x \in BOOLEAN, ok \in {TRUE} : converted_fun(x, ok)
  \/ check_arg
  \/ \E env \in {{}} : args_to_avals_and_env(env)
  \/ enter_try
  \/ interpret_fun
  \/ return_interpret_fun
  \/ finally_converted_fun
  \/ return_converted_fun
  \/ unwind
  \/ propagate_to_caller
  \/ eval_eqn

SpecConv == InitConv /\ [][NextConv]_vars

\* C7: with enable_xla False, a dispatch of conv_general_dilated with
\* feature_group_count # 1 raises the disabled-path error naming
\* conv_general_dilated, whatever the other parameters, and invokes no
\* backend convolution op.
C7_GroupedConvDisabledPath ==
  (/\ last_op.primitive = "conv_general_dilated"
   /\ last_op.impl = <<"tf_impl_with_avals", "conv_general_dilated">>
   /\ ~last_op.enable_xla
   /\ last_op.feature_group_count # 1)
  => /\ last_op.error.type = "NotImplementedError"
     /\ last_op.error.primitive_name = "conv_general_dilated"
     /\ last_op.backend_op = "none"
     /\ last_op.out = <<>>

\* A grouped convolution was dispatched without XLA and refused for being
\* grouped; the error is in flight.
C7_Witness ==
  /\ last_op.primitive = "conv_general_dilated"
  /\ ~last_op.enable_xla
  /\ last_op.feature_group_count = 2
  /\ last_op.error.extra_msg = "grouped convolutions"
  /\ exc = "NotImplementedError"

\* C8: the Tracers returned by process_primitive carry the abstract results
\* of abstract_eval on the operands' abstract values; for a multiple-results
\* primitive there are as many Tracers as abstract results and the i-th
\* carries the i-th.
C8_TracersCarryAbstractResults ==
  (last_op.primitive # "none" /\ last_op.error.type = "none") =>
     LET expected == abstract_eval(eqn.primitive, eqn.args_avals)
     IN IF multiple_results(last_op.primitive)
        THEN /\ Len(last_op.out) = Len(expected)
             /\ \A i \in 1..Len(last_op.out) : last_op.out[i].aval = expected[i]
        ELSE /\ Len(last_op.out) = 1
             /\ last_op.out[1].aval = expected

\* A sort of three operands returned three Tracers.
C8_Witness ==
  /\ last_op.primitive = "sort"
  /\ last_op.error.type = "none"
  /\ Len(last_op.out) = MaxOperands
  /\ Len(eqn.args_avals) = MaxOperands

\* C9: get_primitive_impl returns the value-only converter whenever there is
\* one (also when there is a metadata-aware one as well), the metadata-aware
\* converter when there is only that, and raises NotImplementedError naming
\* the primitive, with no converter, when there is neither.
C9_RegistryLookupOrder ==
  (last_op.primitive # "none") =>
     /\ last_op.in_tf_impl =>
          /\ last_op.impl = <<"tf_impl", last_op.primitive>>
          /\ ~last_op.impl_needs_avals
     /\ (~last_op.in_tf_impl /\ last_op.in_tf_impl_with_avals) =>
          /\ last_op.impl = <<"tf_impl_with_avals", last_op.primitive>>
          /\ last_op.impl_needs_avals
     /\ (~last_op.in_tf_impl /\ ~last_op.in_tf_impl_with_avals) =>
          /\ last_op.impl = <<>>
          /\ last_op.error.type = "NotImplementedError"
          /\ last_op.error.primitive_name = last_op.primitive
          /\ last_op.backend_op = "none"

\* A primitive registered in both registries was dispatched.
C9_Witness ==
  /\ last_op.primitive # "none"
  /\ last_op.in_tf_impl
  /\ last_op.in_tf_impl_with_avals

(***************************************************************************)
(* The while loop with a batched condition.                                *)
(***************************************************************************)
NLanes == 2
MaxLimit == 4
MaxIterations == 6
Lanes == 1..NLanes

\* The scalar condition and body of the loop before batching.  The carry has
\* two values <<x, y>>; the condition compares x with a constant of the
\* condition; the body advances x and accumulates it in y.
cond_fun(cond_jaxpr, cond_const, c) ==
  IF cond_jaxpr = "lt" THEN c[1] < cond_const ELSE c[1] # cond_const
body_fun(body_jaxpr, c) ==
  IF body_jaxpr = "add1" THEN <<c[1] + 1, c[2] + c[1]>>
  ELSE <<c[1] + 2, c[2] + c[1]>>

\* Lane i of a batched carry, and the batched jaxprs: the scalar function
\* applied in every lane.
Lane(c, i) == <<c[1][i], c[2][i]>>
cond_jaxpr(cond_consts, c) ==
  [i \in Lanes |-> cond_fun(while_args.cond_jaxpr, cond_consts[i], Lane(c, i))]
body_jaxpr(c) ==
  <<[i \in Lanes |-> body_fun(while_args.body_jaxpr, Lane(c, i))[1]],
    [i \in Lanes |-> body_fun(while_args.body_jaxpr, Lane(c, i))[2]]>>

WhileArgs ==
  [cond_jaxpr : {"lt", "ne"},
   body_jaxpr : {"add1", "add2"},
   cond_consts : [Lanes -> 0..MaxLimit],
   init_carry : {<<x, [i \in Lanes |-> 0]>> : x \in [Lanes -> 0..1]}]

InitWhile ==
  /\ InitConversion
  /\ eqn = NoEqn
  /\ cond_args = NoCall
  /\ reduce_args = NoCall
  /\ call_args = NoCall
  /\ while_args \in WhileArgs

\* tf.reduce_all in the place of tf.reduce_any.
reduce_all(p) == \A i \in Lanes : p[i]
\* new_cond_tf_func: tf.reduce_any over all the axes of pred_b.
new_cond_tf_func(p) == \E i \in Lanes : p[i]

\* A selection that always keeps the old value.
select_old(p, new_c, c) == c

\* A selection that always takes the new value.
select_new(p, new_c, c) == new_c
\* select_one_carry: tf.where(pred_b_bcast, new_c, c).
select_one_carry(p, new_c, c) ==
  [i \in Lanes |-> IF p[i] THEN new_c[i] ELSE c[i]]

\* The condition evaluated on the values the body produced.
candidate_carry(new_carry, selected_carry) == new_carry
\* The operands of the condition at the end of new_body_tf_func:
\* _interpret_jaxpr(cond_jaxpr, *cond_consts, *selected_carry).
pred_operand(new_carry, selected_carry) == selected_carry

\* _batched_cond_while up to the call of tf.while_loop: the initial
\* computation of the batched condition.
batched_cond_while ==
  /\ while_args # NoWhile
  /\ while_pc = "idle"
  /\ pred_b' = cond_jaxpr(while_args.cond_consts, while_args.init_carry)
  /\ carry' = while_args.init_carry
  /\ iterations' = 0
  /\ while_pc' = "loop"
  /\ UNCHANGED <<tls, stack, exc, heap, ids, lifts, dispatch_state, while_args, thread_state,
                 converter_calls>>

\* One iteration of tf.while_loop: new_cond_tf_func is true, new_body_tf_func
\* computes the next loop-carried values.
new_body_tf_func ==
  /\ while_pc = "loop"
  /\ new_cond_tf_func(pred_b)
  /\ iterations < MaxIterations
  /\ LET new_carry == body_jaxpr(carry)
         selected_carry ==
           [k \in 1..Len(carry) |->
              select_one_carry(pred_b, new_carry[k], carry[k])]
         next_pred_b == cond_jaxpr(while_args.cond_consts,
                                   pred_operand(new_carry, selected_carry))
     IN /\ pred_b' = next_pred_b
        /\ carry' = selected_carry
  /\ iterations' = iterations + 1
  /\ UNCHANGED <<tls, stack, exc, heap, ids, lifts, dispatch_state, while_args,
                 while_pc, thread_state,
                 converter_calls>>

\* tf.while_loop ends when new_cond_tf_func is false; res_carry is the carry.
while_loop_exit ==
  /\ while_pc = "loop"
  /\ ~new_cond_tf_func(pred_b)
  /\ while_pc' = "done"
  /\ UNCHANGED <<tls, stack, exc, heap, ids, lifts, dispatch_state, while_args,
                 pred_b, carry, iterations, thread_state,
                 converter_calls>>

\* All the loop variables of tf.while_loop, the flags included.
whole_loop_state == <<pred_b>> \o carry
\* _, *res_carry = tf.while_loop(...): the result of _batched_cond_while.
res_carry == Tail(<<pred_b>> \o carry)

NextWhile ==
  \/ batched_cond_while
  \/ new_body_tf_func
  \/ while_loop_exit

SpecWhile == InitWhile /\ [][NextWhile]_vars

\* _while with a scalar condition: tf.while_loop(cond_tf_func, body_tf_func,
\* init_carry), given up after fuel iterations.
RECURSIVE while_loop(_, _, _, _, _)
while_loop(cond, body, cond_const, c, fuel) ==
  IF ~cond_fun(cond, cond_const, c) THEN [ended |-> TRUE, carry |-> c]
  ELSE IF fuel = 0 THEN [ended |-> FALSE, carry |-> c]
  ELSE while_loop(cond, body, cond_const, body_fun(body, c), fuel - 1)

\* C1: once the condition of a lane is false, the carried values of that lane
\* stay what they are in every later iteration of the rewritten loop, and its
\* condition stays false.
C1_FinishedLaneFrozen ==
  [][ \A i \in Lanes :
        (while_pc = "loop" /\ ~pred_b[i]) =>
           /\ carry'[1][i] = carry[1][i]
           /\ carry'[2][i] = carry[2][i]
           /\ ~pred_b'[i] ]_vars

\* Lane 1 ended after 2 iterations and a third iteration has been done for
\* lane 2.
C1_Witness ==
  /\ while_pc = "loop"
  /\ iterations = 3
  /\ ~pred_b[1] /\ pred_b[2]
  /\ while_args.cond_jaxpr = "lt" /\ while_args.body_jaxpr = "add1"
  /\ Lane(while_args.init_carry, 1) = <<0, 0>>
  /\ while_args.cond_consts[1] = 2
  /\ Lane(carry, 1) = <<2, 1>>

\* C2: the carry returned for each lane is the result of the scalar while
\* loop with the same condition and body run on that lane alone; lanes with
\* trip counts 2 and 4 from [0, 0] with body +1 and condition < [2, 4]
\* return [2, 4].
C2_LaneEqualsScalarWhile ==
  (while_pc = "done") =>
     /\ \A i \in Lanes :
          LET r == while_loop(while_args.cond_jaxpr, while_args.body_jaxpr,
                              while_args.cond_consts[i],
                              Lane(while_args.init_carry, i), MaxIterations)
          IN r.ended /\ Lane(carry, i) = r.carry
     /\ (/\ while_args.cond_jaxpr = "lt" /\ while_args.body_jaxpr = "add1"
         /\ while_args.init_carry[1][1] = 0 /\ while_args.init_carry[1][2] = 0
         /\ while_args.cond_consts[1] = 2 /\ while_args.cond_consts[2] = 4)
        => (carry[1][1] = 2 /\ carry[1][2] = 4)

\* The loop with trip counts 2 and 4 has ended after 4 iterations.
C2_Witness ==
  /\ while_pc = "done"
  /\ iterations = 4
  /\ while_args.cond_jaxpr = "lt" /\ while_args.body_jaxpr = "add1"
  /\ while_args.init_carry[1][1] = 0 /\ while_args.init_carry[1][2] = 0
  /\ while_args.cond_consts[1] = 2 /\ while_args.cond_consts[2] = 4
  /\ carry[1][1] = 2 /\ carry[1][2] = 4

(***************************************************************************)
(* The argument check of converted_fun.                                    *)
(***************************************************************************)
\* C11: a call whose arguments have a leaf that is not a TfVal raises
\* TypeError at the argument check: the call never gets past it, so the shape
\* solver is not consulted; the raising step writes no thread-local field and
\* dispatches no primitive; TypeError is raised nowhere else.
C11_ArgumentTypeError ==
  [][ /\ \A i \in 1..Len(stack) :
           (stack[i].kind = "converted_fun" /\ ~stack[i].args_ok) =>
              /\ stack[i].pc = "check_arg"
              /\ stack[i].shapeenv = {}
              /\ i = Len(stack)
      /\ (AtPc("check_arg") /\ ~Top.args_ok) =>
            /\ exc' = "TypeError"
            /\ UNCHANGED <<tls, stack, last_op>>
      /\ (exc = "none" /\ exc' = "TypeError") =>
            /\ AtPc("check_arg") /\ ~Top.args_ok
            /\ UNCHANGED <<tls, last_op>> ]_vars

\* A call with a bad argument, made after a primitive was dispatched with a
\* non-default enable_xla by an earlier call, has raised TypeError.
C11_Witness ==
  /\ exc = "TypeError"
  /\ stack # <<>> /\ Top.kind = "converted_fun" /\ ~Top.args_ok
  /\ Top.id = 2
  /\ last_op.primitive # "none" /\ ~last_op.enable_xla
  /\ enable_xla /\ shape_env = {}

(***************************************************************************)
(* Conversions on several threads: _ThreadLocalState(threading.local).     *)
(***************************************************************************)
\* One instance for all the threads, as a plain object would be.
OneForAll(t) == 1
\* threading.local: the attributes a thread reads and writes are its own.
LocalOf(t) == t

\* The fields of _thread_local_state that thread t sees.
Local(t) == thread_local_state[LocalOf(t)]
\* Thread t assigns the fields given in `new` (a record field |-> value).
Assign(t, new) ==
  [thread_local_state EXCEPT ![LocalOf(t)] =
     [f \in DOMAIN @ |-> IF f \in DOMAIN new THEN Written(new[f], t) ELSE @[f]]]

\* Thread t calls a converted function; the arguments pass check_arg and
\* _args_to_avals_and_env returns shapeenv.
thread_converted_fun(t, enable_xla_arg, shapeenv) ==
  /\ threads[t].pc = "idle"
  /\ threads' = [threads EXCEPT ![t] =
       [IdleThread EXCEPT !.pc = "try", !.enable_xla = enable_xla_arg,
                          !.shapeenv = shapeenv]]
  /\ UNCHANGED thread_local_state

\* The head of the try block of converted_fun, on thread t.
thread_enter_try(t) ==
  /\ threads[t].pc = "try"
  /\ IF Local(t).shape_env.val # {}
     THEN /\ threads' = [threads EXCEPT ![t].pc = "unwinding",
                                        ![t].raised = "AssertionError"]
          /\ UNCHANGED thread_local_state
     ELSE /\ threads' = [threads EXCEPT
               ![t].pc = "in_try",
               ![t].prev_enable_xla = Bound(Local(t).enable_xla.val),
               ![t].prev_include_xla_op_metadata =
                  Bound(Local(t).include_xla_op_metadata.val)]
          /\ thread_local_state' =
               Assign(t, [enable_xla |-> threads[t].enable_xla,
                          include_xla_op_metadata |-> FALSE,
                          shape_env |-> threads[t].shapeenv])

\* _interpret_fun on thread t: a new cache and the extended name stack.
thread_interpret_fun(t) ==
  /\ threads[t].pc = "in_try"
  /\ threads' = [threads EXCEPT
       ![t].pc = "interpreting",
       ![t].prev_constant_cache = Local(t).constant_cache.val,
       ![t].prev_name_stack = Local(t).name_stack.val]
  /\ thread_local_state' =
       Assign(t, [constant_cache |-> EmptyCache,
                  name_stack |->
                    IF Local(t).name_stack.val = "" THEN ConvertNameStack
                    ELSE extend_name_stack(Local(t).name_stack.val,
                                           ConvertNameStack)])

\* A memoized lift on thread t: the constant goes into the cache it sees.
thread_lift_constant(t, val) ==
  /\ threads[t].pc = "interpreting"
  /\ ~Local(t).constant_cache.val.none
  /\ \A e \in Local(t).constant_cache.val.entries : e.val # val
  /\ thread_local_state' =
       Assign(t, [constant_cache |->
          [Local(t).constant_cache.val EXCEPT
             !.entries = @ \cup {[val |-> val, by |-> t]}]])
  /\ UNCHANGED threads

\* The interpretation on thread t ends, normally or with an exception: the
\* finally blocks of _extended_name_stack and _interpret_fun run.
thread_exit_interpret_fun(t, raised) ==
  /\ threads[t].pc = "interpreting"
  /\ threads' = [threads EXCEPT
       ![t].pc = IF raised = "none" THEN "finally" ELSE "unwinding",
       ![t].raised = raised]
  /\ thread_local_state' =
       Assign(t, [name_stack |-> threads[t].prev_name_stack,
                  constant_cache |-> threads[t].prev_constant_cache])

\* The finally block of converted_fun on thread t, then the return or the
\* exception reaching the caller.
thread_finally(t) ==
  /\ threads[t].pc \in {"finally", "unwinding"}
  /\ IF threads[t].prev_enable_xla.bound
     THEN /\ thread_local_state' =
               Assign(t, [shape_env |-> {},
                          enable_xla |-> threads[t].prev_enable_xla.val,
                          include_xla_op_metadata |->
                            threads[t].prev_include_xla_op_metadata.val])
          /\ threads' = [threads EXCEPT ![t].pc = "idle"]
     ELSE /\ thread_local_state' = Assign(t, [shape_env |-> {}])
          /\ threads' = [threads EXCEPT ![t].pc = "idle",
                                        ![t].raised = "UnboundLocalError"]

NextThreads ==
  \E t \in Threads :
    \/ \E x \in BOOLEAN, env \in ShapeEnvs : thread_converted_fun(t, x, env)
    \/ thread_enter_try(t)
    \/ thread_interpret_fun(t)
    \/ \E o \in Objs : thread_lift_constant(t, o)
    \/ \E e \in {"none", "NotImplementedError"} : thread_exit_interpret_fun(t, e)
    \/ thread_finally(t)

ThreadsUnchanged ==
  UNCHANGED <<tls, stack, exc, heap, ids, lifts, dispatch_state, while_state,
              converter_calls>>

SpecThreads == Init /\ [][NextThreads /\ ThreadsUnchanged]_vars

\* C12: whatever the interleaving, the fields a thread reads were written by
\* that thread or are the initial defaults, the entries of the cache it sees
\* are its own, its failures are those of its own conversion, and when it is
\* not converting its fields are what they were before it started.
C12_ThreadsIsolated ==
  \A t \in Threads :
    /\ \A f \in DOMAIN Local(t) : Local(t)[f].by \in {0, t}
    /\ \A e \in Local(t).constant_cache.val.entries : e.by = t
    /\ threads[t].raised \in {"none", "NotImplementedError"}
    /\ threads[t].pc = "idle" =>
         \A f \in DOMAIN Local(t) : Local(t)[f].val = ThreadLocalInit[f].val

\* Thread 1 has finished a conversion and has its defaults back while
\* thread 2 is interpreting with XLA disabled, a shape environment and a
\* constant in its cache.
C12_Witness ==
  /\ threads[1].pc = "idle"
  /\ Local(1).enable_xla = Written(TRUE, 1)
  /\ threads[2].pc = "interpreting"
  /\ Local(2).enable_xla = Written(FALSE, 2)
  /\ Local(2).shape_env = Written({"b"}, 2)
  /\ Local(2).constant_cache.val.entries # {}

(***************************************************************************)
(* The shape environment.                                                  *)
(***************************************************************************)
\* C13: shape_env is empty when no conversion is in progress; when it is not
\* empty it is the solver's environment of a conversion that is inside its
\* try block; a conversion asserts it empty on entry, and otherwise sets it
\* to the solver's environment.
C13_ShapeEnvScoped ==
  /\ [](/\ (\A i \in 1..Len(stack) : stack[i].kind # "converted_fun")
             => shape_env = {}
        /\ shape_env # {} =>
             \E i \in 1..Len(stack) :
               /\ stack[i].kind = "converted_fun"
               /\ stack[i].pc \in {"in_try", "interpreting", "finally"}
               /\ stack[i].prev_enable_xla.bound
               /\ stack[i].shapeenv = shape_env)
  /\ [][ AtPc("try") =>
           IF shape_env # {}
           THEN exc' = "AssertionError" /\ shape_env' = shape_env
           ELSE exc' = "none" /\ shape_env' = Top.shapeenv ]_vars

\* A conversion with a shape environment has failed and its exception has
\* reached the caller of the outermost call.
C13_Witness ==
  /\ stack = <<>>
  /\ exc = "UnboundLocalError"
  /\ shape_env = {}
  /\ nconv = 2

(***************************************************************************)
(* The phases of a call of converted_fun.                                  *)
(***************************************************************************)
\* The phase a call of converted_fun is in: building the abstract
\* environment up to the head of the try block, interpreting inside the try
\* block, unboxing from the finally block to the return.
PhaseOf(f) ==
  IF f.pc \in {"check_arg", "args_to_avals", "try"} THEN "BUILDING_ABSTRACT_ENV"
  ELSE IF f.pc \in {"in_try", "interpreting"} THEN "INTERPRETING"
  ELSE "UNBOXING"
PhaseStep(p, q) ==
  \/ p = q
  \/ p = "BUILDING_ABSTRACT_ENV" /\ q = "INTERPRETING"
  \/ p = "INTERPRETING" /\ q = "UNBOXING"

\* The interpretation contexts: _interpret_fun (a new main trace) and
\* process_call (a new sublevel).
ContextKinds == {"_interpret_fun", "process_call"}
\* The call of converted_fun that frame i of stk belongs to (0: none), and the
\* nesting level of a context within its call.
Owner(stk, i) ==
  LET S == {j \in 1..i : stk[j].kind = "converted_fun"}
  IN IF S = {} THEN 0 ELSE CHOOSE j \in S : \A k \in S : k <= j
Level(stk, i) ==
  Cardinality({j \in (Owner(stk, i) + 1)..i : stk[j].kind \in ContextKinds})

\* C14: a call that completes goes through BUILDING_ABSTRACT_ENV,
\* INTERPRETING, UNBOXING in this order, one after the other; contexts exist
\* only inside a call that is INTERPRETING, a child is one level above its
\* parent and returns before it; the values the call gives enable_xla and
\* shape_env are not there before the try block nor after the finally block.
C14_ConversionPhases ==
  /\ [](/\ \A i \in 1..Len(stack) :
             stack[i].kind \in ContextKinds =>
               /\ Owner(stack, i) # 0
               /\ stack[Owner(stack, i)].pc = "interpreting"
        /\ stack = <<>> => (enable_xla /\ shape_env = {})
        /\ (exc = "none" /\ stack # <<>> /\ Top.kind = "converted_fun"
            /\ PhaseOf(Top) # "INTERPRETING" /\ Top.pc # "finally") =>
              /\ ScopedFields = Top.entry
              /\ Top.pc = "unbox" => shape_env = {})
  /\ [][ (exc = "none" /\ exc' = "none") =>
          /\ \A i \in 1..Len(stack) :
               (i <= Len(stack') /\ stack[i].kind = "converted_fun") =>
                  /\ stack'[i].kind = "converted_fun"
                  /\ stack'[i].id = stack[i].id
                  /\ PhaseStep(PhaseOf(stack[i]), PhaseOf(stack'[i]))
          /\ Len(stack') > Len(stack) =>
               /\ Len(stack') = Len(stack) + 1
               /\ stack'[Len(stack')].kind = "converted_fun" =>
                    stack'[Len(stack')].pc = "check_arg"
               /\ stack'[Len(stack')].kind \in ContextKinds =>
                    Level(stack', Len(stack')) = Level(stack, Len(stack)) + 1
          /\ Len(stack') < Len(stack) =>
               /\ Len(stack') = Len(stack) - 1
               /\ \A i \in 1..(Len(stack') - 1) : stack'[i] = stack[i]
               /\ Top.kind = "converted_fun" => Top.pc = "unbox" ]_vars

\* A call with XLA disabled and a shape environment, which had a child
\* context, has returned to unboxing inside another conversion's context.
C14_Witness ==
  /\ AtPc("unbox")
  /\ ~Top.enable_xla /\ Top.shapeenv = {"b"}
  /\ enable_xla /\ shape_env = {}
  /\ nscope = MaxScopes
  /\ Len(stack) > 1

(***************************************************************************)
(* _cond: the conversion of a conditional.                                 *)
(***************************************************************************)
MaxBranches == 3
\* The branch sub-computations of a conditional with n branches, by position.
Branches(n) == [k \in 1..n |-> [jaxpr |-> k - 1]]
\* The selectors tried: in range, negative, and beyond the closures built.
Selectors == (0 - 1)..(MaxBranches * MaxBranches)
Operands == {"x", "y"}

CondArgs ==
  [called : {TRUE}, n : 1..MaxBranches, index : Selectors, operands : Operands]

InitCond ==
  /\ InitConversion
  /\ eqn = NoEqn
  /\ while_args = NoWhile
  /\ reduce_args = NoCall
  /\ call_args = NoCall
  /\ cond_args \in CondArgs

\* f"branch_{i}_fun"
BranchName(i) ==
  IF i = 0 THEN "branch_0_fun" ELSE IF i = 1 THEN "branch_1_fun"
  ELSE IF i = 2 THEN "branch_2_fun" ELSE "branch_3_fun"

\* partial(_interpret_jaxpr, jaxpr, *operands, extra_name_stack=...)
Closure(jaxpr, operands, extra_name_stack) ==
  [jaxpr |-> jaxpr, operands |-> operands,
   extra_name_stack |-> extra_name_stack]

\* The list comprehension of _cond: `for jaxpr in branches` around
\* `for i, jaxpr in enumerate(branches)`; the inner loop rebinds jaxpr, so
\* every pass of the outer loop appends one closure per branch.
BranchesTf(branches, operands) ==
  LET n == Len(branches)
  IN [k \in 1..(n * n) |->
        LET i == (k - 1) % n
        IN Closure(branches[i + 1].jaxpr, operands, BranchName(i))]

\* tf.switch_case(branch_index, branch_fns) without a default: an index
\* outside the branch_fns runs the last of them.
switch_case(branch_index, branch_fns) ==
  IF branch_index >= 0 /\ branch_index < Len(branch_fns)
  THEN branch_fns[branch_index + 1]
  ELSE branch_fns[Len(branch_fns)]

\* _cond(index, *operands, branches, linear)
cond ==
  /\ cond_args # NoCall
  /\ ~cond_out.called
  /\ LET branches_tf == BranchesTf(Branches(cond_args.n), cond_args.operands)
     IN cond_out' = [called |-> TRUE, branches_tf |-> branches_tf,
                     ran |-> switch_case(cond_args.index, branches_tf)]
  /\ UNCHANGED <<tls, stack, exc, heap, ids, lifts, dispatch_state,
                 while_state, thread_state, cond_args, reduce_args, reduce_out,
                 call_args, call_out>>

NextCond == cond

SpecCond == InitCond /\ [][NextCond]_vars

\* C15: _cond hands tf.switch_case exactly N closures, the closure at
\* position i interpreting branch i on the operands under branch_i_fun, so
\* that the branch run is the one tf.switch_case selects among N branches.
C15_OneClosurePerBranch ==
  cond_out.called =>
    LET n == cond_args.n
        expected == [k \in 1..n |->
                       Closure(k - 1, cond_args.operands, BranchName(k - 1))]
    IN /\ Len(cond_out.branches_tf) = n
       /\ cond_out.branches_tf = expected
       /\ cond_out.ran = switch_case(cond_args.index, expected)

(***************************************************************************)
(* The reduce_window converters and the initial value of the reduction.    *)
(***************************************************************************)
ReduceNames == {"reduce_window_sum", "reduce_window_min", "reduce_window_max"}
TfDTypes == {"bfloat16", "float32", "int8", "int16", "uint8", "bool"}

\* dtypes.issubdtype(numpy_tf_dtype, np.inexact) / np.integer, and
\* dtypes.iinfo(numpy_tf_dtype).
IsInexact(tf_dtype) == tf_dtype \in {"float32"}
IsInteger(tf_dtype) == tf_dtype \in {"int8", "int16", "uint8"}
iinfo(tf_dtype) ==
  LET bits == IF tf_dtype = "int16" THEN 16 ELSE 8
  IN IF tf_dtype \in {"int8", "int16"}
     THEN [min |-> 0 - 2^(bits - 1), max |-> 2^(bits - 1) - 1]
     ELSE [min |-> 0, max |-> 2^bits - 1]

\* A floating value: numpy_tf_dtype(np.inf), numpy_tf_dtype(-np.inf).
Float(tf_dtype, v) == [dtype |-> tf_dtype, value |-> v]

\* _get_min_identity
get_min_identity(tf_dtype) ==
  IF tf_dtype = "bfloat16" \/ IsInexact(tf_dtype) THEN Float(tf_dtype, "inf")
  ELSE IF IsInteger(tf_dtype) THEN iinfo(tf_dtype).max
  ELSE TRUE

\* The identity of a running minimum in the place of that of a maximum.
IdentityOfMin(tf_dtype) == get_min_identity(tf_dtype)
\* _get_max_identity
get_max_identity(tf_dtype) ==
  IF tf_dtype = "bfloat16" \/ IsInexact(tf_dtype) THEN Float(tf_dtype, "-inf")
  ELSE IF IsInteger(tf_dtype) THEN iinfo(tf_dtype).min
  ELSE FALSE

\* The identity function bound by partial(_specialized_reduce_window, ...)
\* for each of the three primitives.
identity(name, tf_dtype) ==
  IF name = "reduce_window_sum" THEN 0
  ELSE IF name = "reduce_window_min" THEN get_min_identity(tf_dtype)
  ELSE get_max_identity(tf_dtype)

ReduceArgs == [called : {TRUE}, name : ReduceNames, dtype : TfDTypes]

InitReduce ==
  /\ InitConversion
  /\ eqn = NoEqn
  /\ while_args = NoWhile
  /\ cond_args = NoCall
  /\ reduce_args \in ReduceArgs
  /\ call_args = NoCall

\* _specialized_reduce_window: without XLA the pooling realization is tried
\* for max and sum; otherwise _common_reduce_window gets identity(dtype).
specialized_reduce_window ==
  /\ InBody
  /\ reduce_args # NoCall
  /\ ~reduce_out.called
  /\ reduce_out' =
       IF ~enable_xla
          /\ reduce_args.name \in {"reduce_window_max", "reduce_window_sum"}
       THEN [called |-> TRUE, by |-> "_try_tf_pool"]
       ELSE [called |-> TRUE, by |-> "_common_reduce_window",
             init_value |-> identity(reduce_args.name, reduce_args.dtype)]
  /\ UNCHANGED <<tls, stack, exc, heap, ids, lifts, dispatch_state,
                 while_state, thread_state, cond_args, cond_out, reduce_args,
                 call_args, call_out>>

\* A conversion of a program with one windowed reduction.
NextReduce ==
  \/ \E x \in BOOLEAN, ok \in {TRUE} : converted_fun(x, ok)
  \/ check_arg
  \/ \E env \in {{}} : args_to_avals_and_env(env)
  \/ enter_try
  \/ interpret_fun
  \/ return_interpret_fun
  \/ finally_converted_fun
  \/ return_converted_fun
  \/ specialized_reduce_window

SpecReduce == InitReduce /\ [][NextReduce]_vars

\* C16 as stated: the initial value of a running maximum is negative
\* infinity for floating dtypes and the least integer of the dtype for
\* integer dtypes; for boolean operands it is false for min and true for max.
C16_BoolFalseForMinTrueForMax ==
  (reduce_out.called /\ reduce_out.by = "_common_reduce_window") =>
    LET d == reduce_args.dtype
        v == reduce_out.init_value
    IN /\ (reduce_args.name = "reduce_window_max" /\ d \in {"bfloat16", "float32"})
            => v = [dtype |-> d, value |-> "-inf"]
       /\ (reduce_args.name = "reduce_window_max" /\ d = "int8") => v = 0 - 128
       /\ (reduce_args.name = "reduce_window_max" /\ d = "int16")
            => v = 0 - 32768
       /\ (reduce_args.name = "reduce_window_max" /\ d = "uint8") => v = 0
       /\ (reduce_args.name = "reduce_window_min" /\ d = "bool") => v = FALSE
       /\ (reduce_args.name = "reduce_window_max" /\ d = "bool") => v = TRUE

\* C16 amended: as above for floating and integer dtypes; for boolean
\* operands the initial value is false for max and true for min.
C16_BoolFalseForMaxTrueForMin ==
  (reduce_out.called /\ reduce_out.by = "_common_reduce_window") =>
    LET d == reduce_args.dtype
        v == reduce_out.init_value
    IN /\ (reduce_args.name = "reduce_window_max" /\ d \in {"bfloat16", "float32"})
            => v = [dtype |-> d, value |-> "-inf"]
       /\ (reduce_args.name = "reduce_window_max" /\ d = "int8") => v = 0 - 128
       /\ (reduce_args.name = "reduce_window_max" /\ d = "int16")
            => v = 0 - 32768
       /\ (reduce_args.name = "reduce_window_max" /\ d = "uint8") => v = 0
       /\ (reduce_args.name = "reduce_window_max" /\ d = "bool") => v = FALSE
       /\ (reduce_args.name = "reduce_window_min" /\ d = "bool") => v = TRUE

\* A running minimum over booleans was converted with XLA disabled and
\* started from true.
C16_Witness ==
  /\ reduce_out.called
  /\ reduce_args.name = "reduce_window_min" /\ reduce_args.dtype = "bool"
  /\ ~enable_xla
  /\ reduce_out.by = "_common_reduce_window"
  /\ reduce_out.init_value = TRUE

(***************************************************************************)
(* Calls with a custom differentiation rule.                               *)
(***************************************************************************)

\* A custom-derivative call that evaluates its rule.
process_custom_call_of_rule(fun, jvp, tracers) ==
  process_call_via("core_call", jvp, tracers,
                   [method |-> "process_custom_jvp_call", fun |-> fun,
                    rules |-> {jvp}, tracers |-> tracers])
\* TensorFlowTrace.process_custom_jvp_call(prim, fun, jvp, tracers)
process_custom_jvp_call(fun, jvp, tracers) ==
  process_call_via("core_call", fun, tracers,
                   [method |-> "process_custom_jvp_call", fun |-> fun,
                    rules |-> {jvp}, tracers |-> tracers])

\* TensorFlowTrace.process_custom_vjp_call(prim, fun, fwd, bwd, tracers, _)
process_custom_vjp_call(fun, fwd, bwd, tracers) ==
  process_call_via("core_call", fun, tracers,
                   [method |-> "process_custom_vjp_call", fun |-> fun,
                    rules |-> {fwd, bwd}, tracers |-> tracers])

\* post_process_custom_jvp_call and post_process_custom_vjp_call: assert False.
PostProcessHooks == {"post_process_custom_jvp_call",
                     "post_process_custom_vjp_call"}
post_process_custom_call(hook) ==
  /\ InBody
  /\ Len(stack) < MaxDepth
  /\ stack' = Push([kind |-> hook])
  /\ exc' = "AssertionError"
  /\ UNCHANGED <<tls, heap, ids, lifts, dispatch_state, while_state,
                 thread_state, converter_calls>>

post_process_custom_jvp_call ==
  post_process_custom_call("post_process_custom_jvp_call")
post_process_custom_vjp_call ==
  post_process_custom_call("post_process_custom_vjp_call")

\* A conversion of a program with plain calls and custom-derivative calls.
NextCustom ==
  \/ \E x \in {TRUE}, ok \in {TRUE} : converted_fun(x, ok)
  \/ check_arg
  \/ \E env \in {{}} : args_to_avals_and_env(env)
  \/ enter_try
  \/ interpret_fun
  \/ return_interpret_fun
  \/ finally_converted_fun
  \/ return_converted_fun
  \/ \E c \in CallPrimitives : process_call(c)
  \/ \E fun \in {"f", "h"}, jvp \in {"f_jvp"}, t \in {<<"x", "y">>} :
       process_custom_jvp_call(fun, jvp, t)
  \/ \E fun \in {"f", "h"}, fwd \in {"f_fwd"}, bwd \in {"f_bwd"},
        t \in {<<"x", "y">>} :
       process_custom_vjp_call(fun, fwd, bwd, t)
  \/ return_process_call
  \/ post_process_custom_jvp_call
  \/ post_process_custom_vjp_call
  \/ unwind
  \/ propagate_to_caller

SpecCustom == Init /\ [][NextCustom]_vars

CustomMethods == {"process_custom_jvp_call", "process_custom_vjp_call"}

\* C17: a call that arrives through process_custom_jvp_call or
\* process_custom_vjp_call evaluates the primal function on the given tracers
\* and none of the attached rules, and the step is the one process_call makes
\* for the plain call primitive on that function and those tracers; a
\* post-processing hook that is reached has raised an AssertionError.
C17_CustomCallsActAsPlainCall ==
  /\ [](\A i \in 1..Len(stack) :
          (stack[i].kind = "process_call"
           /\ stack[i].via.method \in CustomMethods) =>
            /\ stack[i].call_primitive = "core_call"
            /\ stack[i].fun = stack[i].via.fun
            /\ stack[i].fun \notin stack[i].via.rules
            /\ stack[i].tracers = stack[i].via.tracers)
  /\ [](\A i \in 1..Len(stack) :
          stack[i].kind \in PostProcessHooks =>
            i = Len(stack) /\ exc = "AssertionError")
  /\ [][(/\ Len(stack') = Len(stack) + 1
         /\ stack'[Len(stack')].kind = "process_call"
         /\ stack'[Len(stack')].via.method \in CustomMethods) =>
          LET new == stack'[Len(stack')]
          IN /\ stack' = Append(stack,
                   [kind |-> "process_call", call_primitive |-> "core_call",
                    fun |-> new.via.fun, tracers |-> new.via.tracers,
                    via |-> new.via, prev_name_stack |-> name_stack])
             /\ name_stack' = extended_name_stack(CallNameStack("core_call"))
             /\ name_stack' = name_stack
             /\ UNCHANGED <<enable_xla, inside_call_tf, shape_env,
                            include_xla_op_metadata, constant_cache, exc,
                            heap, ids, lifts>>]_vars

\* A custom_vjp call with two distinct rules is being evaluated inside a
\* custom_jvp call, and a post-processing hook has failed.
C17_Witness ==
  /\ Len(stack) >= 4
  /\ stack[Len(stack)].kind = "post_process_custom_vjp_call"
  /\ exc = "AssertionError"
  /\ LET v == stack[Len(stack) - 1]
         j == stack[Len(stack) - 2]
     IN /\ v.kind = "process_call" /\ j.kind = "process_call"
        /\ v.via.method = "process_custom_vjp_call"
        /\ v.via.rules = {"f_fwd", "f_bwd"}
        /\ j.via.method = "process_custom_jvp_call"
        /\ j.fun = "h"

(***************************************************************************)
(* The batched while loop: trip counts, termination, the lanes' flags.     *)
(***************************************************************************)
\* The number of times the scalar while loop runs its body from c, or
\* fuel + 1 when it has not ended after fuel iterations.
RECURSIVE trip_count(_, _, _, _, _)
trip_count(cond_j, body_j, cond_const, c, fuel) ==
  IF ~cond_fun(cond_j, cond_const, c) THEN 0
  ELSE IF fuel = 0 THEN 1
  ELSE 1 + trip_count(cond_j, body_j, cond_const, body_fun(body_j, c),
                      fuel - 1)

\* The trip count of lane i of the loop being converted.
LaneTrips(i) ==
  trip_count(while_args.cond_jaxpr, while_args.body_jaxpr,
             while_args.cond_consts[i], Lane(while_args.init_carry, i),
             MaxIterations)
MaxTrips == CHOOSE m \in {LaneTrips(i) : i \in Lanes} :
              \A i \in Lanes : LaneTrips(i) <= m

\* The loop is fair: tf.while_loop goes on until its condition is false.
SpecWhileFair == InitWhile /\ [][NextWhile]_vars /\ WF_vars(NextWhile)

\* C18: the body is run while some lane's flag is true, max over the lanes
\* of the lane's own trip count times in all; when the condition is false in
\* every lane on the initial carry the body is not run and the result is the
\* initial carry; the result has as many elements as the initial carry.
C18_BodyRunsMaxTripCountTimes ==
  /\ [](while_pc = "done" =>
          /\ iterations = MaxTrips
          /\ MaxTrips <= MaxIterations
          /\ Len(res_carry) = Len(while_args.init_carry)
          /\ res_carry = carry
          /\ (\A i \in Lanes :
                ~cond_fun(while_args.cond_jaxpr, while_args.cond_consts[i],
                          Lane(while_args.init_carry, i)))
               => (iterations = 0 /\ res_carry = while_args.init_carry))
  /\ [](while_pc = "loop" => iterations <= MaxTrips)
  /\ [][iterations' # iterations =>
          (iterations' = iterations + 1 /\ \E i \in Lanes : pred_b[i])]_vars
  /\ [][(while_pc = "loop" /\ while_pc' = "done") =>
          \A i \in Lanes : ~pred_b[i]]_vars

\* Lanes with trip counts 1 and 3 have ended after 3 runs of the body.
C18_Witness ==
  /\ while_pc = "done"
  /\ iterations = 3
  /\ LaneTrips(1) = 1 /\ LaneTrips(2) = 3
  /\ Len(res_carry) = 2

\* C19: when the scalar loop of every lane ends after finitely many
\* iterations, the rewritten loop reaches an iteration after which the flag
\* of every lane is false, and exits.
C19_BatchedLoopTerminates ==
  (\A i \in Lanes : LaneTrips(i) <= MaxIterations)
    => <>(while_pc = "done" /\ \A i \in Lanes : ~pred_b[i])

\* A loop with condition != and body +2 has ended after lanes of 2 and 1
\* iterations.
C19_Witness ==
  /\ while_pc = "done"
  /\ while_args.cond_jaxpr = "ne" /\ while_args.body_jaxpr = "add2"
  /\ LaneTrips(1) = 2 /\ LaneTrips(2) = 1
  /\ iterations = 2
  /\ \A i \in Lanes : ~pred_b[i]

\* C20: a lane's flag that is false at the end of an iteration is false at
\* the end of every later one; the flag is the condition of the carry the
\* lane keeps, not of the values the body produced.
C20_FlagMonotone ==
  /\ [](while_pc \in {"loop", "done"} =>
          pred_b = cond_jaxpr(while_args.cond_consts, carry))
  /\ [][\A i \in Lanes :
          (while_pc \in {"loop", "done"} /\ ~pred_b[i]) => ~pred_b'[i]]_vars

\* With the condition !=, lane 1 ended at 2 and the body would take it to 3,
\* where the condition is true again; lane 2 has gone on for two iterations.
C20_Witness ==
  /\ while_pc = "loop"
  /\ while_args.cond_jaxpr = "ne" /\ while_args.body_jaxpr = "add1"
  /\ while_args.cond_consts[1] = 2
  /\ LaneTrips(1) = 2 /\ iterations = 4
  /\ ~pred_b[1] /\ pred_b[2]
  /\ carry[1][1] = 2
  /\ cond_fun("ne", 2, body_fun("add1", Lane(carry, 1)))

(***************************************************************************)
(* process_call: the name stack and the nesting level.                     *)
(***************************************************************************)
\* C21: process_call evaluates the sub-function in a context of the same
\* conversion one level up; while the sub-function is evaluated the name
\* stack is the value before the call extended by named(name) for a named
\* call, by jit(name) for a nested jit call, and is unchanged for the other
\* calls; when the call returns or raises, the name stack and the level are
\* what they were before the call, at every depth.
C21_ProcessCallNameStack ==
  /\ [](\A i \in 1..Len(stack) :
          (stack[i].kind = "process_call" /\ i = Len(stack) /\ exc = "none") =>
             LET prev == stack[i].prev_name_stack
                 suffix == IF stack[i].call_primitive = "named_call"
                           THEN "named(g)"
                           ELSE IF stack[i].call_primitive = "xla_call"
                           THEN "jit(g)" ELSE ""
             IN name_stack = IF suffix = "" THEN prev
                             ELSE IF prev = "" THEN suffix
                             ELSE prev \o suffix \o "/")
  /\ [][(/\ Len(stack') = Len(stack) + 1
         /\ stack'[Len(stack')].kind = "process_call") =>
          /\ stack'[Len(stack')].prev_name_stack = name_stack
          /\ Owner(stack', Len(stack')) = Owner(stack, Len(stack))
          /\ Level(stack', Len(stack')) = Level(stack, Len(stack)) + 1
          /\ \A i \in 1..Len(stack) : stack'[i] = stack[i]]_vars
  /\ [][(/\ stack # <<>>
         /\ Top.kind = "process_call"
         /\ Len(stack') < Len(stack)) =>
          /\ name_stack' = Top.prev_name_stack
          /\ stack' = SubSeq(stack, 1, Len(stack) - 1)
          /\ Len(stack') > 0
          /\ Level(stack', Len(stack')) = Level(stack, Len(stack)) - 1]_vars

\* An exception is passing a named call made inside a nested jit call, both
\* of which extended the name stack.
C21_Witness ==
  /\ Len(stack) >= 4
  /\ exc # "none"
  /\ Top.kind = "process_call" /\ Top.call_primitive = "named_call"
  /\ stack[Len(stack) - 1].kind = "process_call"
  /\ stack[Len(stack) - 1].call_primitive = "xla_call"
  /\ name_stack # Top.prev_name_stack
  /\ Top.prev_name_stack # stack[Len(stack) - 1].prev_name_stack

\* The state before a call, with arguments drawn from Args, of the one
\* function a specification is about.
InitCall(Args) ==
  /\ InitConversion
  /\ eqn = NoEqn
  /\ while_args = NoWhile
  /\ cond_args = NoCall
  /\ reduce_args = NoCall
  /\ call_args \in Args

(***************************************************************************)
(* TensorFlowTracer.__init__: the checks of the value against the aval.    *)
(***************************************************************************)
MaxRank == 2
\* The dimensions of a TF shape (None: not known) and of a JAX shape (b: a
\* dimension variable).
ValDims == {"None", "2", "3"}
AvalDims == {"2", "3", "b"}
ShapesOf(dims) == UNION {[1..n -> dims] : n \in 0..MaxRank}

\* shape_poly.is_poly_dim
is_poly_dim(d) == d = "b"

\* A check of the dimensions that takes no dimension variable for a known
\* size.
dim_ok_exact(aval_dim, val_dim, aval_int) ==
  IF val_dim = "None" THEN is_poly_dim(aval_dim)
  ELSE aval_dim = val_dim
\* The body of the loop over zip(aval.shape, val_shape): whether the
\* assertions for one dimension pass.
\*   aval_int: what int(_eval_shape([aval_dim])) gives, or "TypeError"
dim_ok(aval_dim, val_dim, aval_int) ==
  IF val_dim = "None" THEN is_poly_dim(aval_dim)
  ELSE IF ~is_poly_dim(aval_dim) THEN aval_dim = val_dim
  ELSE IF aval_int = "TypeError" THEN TRUE
  ELSE aval_int = val_dim

TracerArgs ==
  [op : {"TensorFlowTracer"},
   is_tensor : BOOLEAN,          \* isinstance(val, (tf.Tensor, tf.Variable))
   val_shape : ShapesOf(ValDims),
   abstract_unit : BOOLEAN,      \* aval is core.abstract_unit
   aval_shape : ShapesOf(AvalDims),
   same_dtype : BOOLEAN,         \* the dtype assertion holds
   jax_enable_checks : BOOLEAN,
   aval_int : {"TypeError", "2", "3"}]

\* TensorFlowTracer.__init__ up to the lift of val.
TensorFlowTracer ==
  /\ call_args # NoCall
  /\ call_args.op = "TensorFlowTracer"
  /\ ~call_out.called
  /\ LET a == call_args
         checked == ~a.abstract_unit /\ a.is_tensor /\ a.jax_enable_checks
         passes ==
           /\ Len(a.aval_shape) = Len(a.val_shape)
           /\ a.same_dtype
           /\ \A k \in 1..Len(a.aval_shape) :
                dim_ok(a.aval_shape[k], a.val_shape[k], a.aval_int)
     IN call_out' = [called |-> TRUE,
                     exc |-> IF checked /\ ~passes THEN "AssertionError"
                             ELSE "none"]
  /\ UNCHANGED <<tls, stack, exc, heap, ids, lifts, dispatch_state,
                 while_state, thread_state, cond_args, cond_out, reduce_args,
                 reduce_out, call_args>>

NextTracer == TensorFlowTracer

SpecTracer == InitCall(TracerArgs) /\ [][NextTracer]_vars

\* C22 as stated: with the checks enabled, a tracer for a tensor and an aval
\* that is not the unit is constructed only when the ranks are equal and
\* every dimension either matches exactly or is unknown in the value and
\* symbolic in the aval; every other combination fails with an assertion.
C22_ExactOrUnknownSymbolic ==
  (/\ call_out.called /\ call_args.op = "TensorFlowTracer"
   /\ call_args.jax_enable_checks /\ call_args.is_tensor
   /\ ~call_args.abstract_unit) =>
    LET a == call_args
        allowed ==
          /\ Len(a.aval_shape) = Len(a.val_shape)
          /\ \A k \in 1..Len(a.aval_shape) :
               \/ (a.val_shape[k] # "None" /\ a.aval_shape[k] = a.val_shape[k])
               \/ (a.val_shape[k] = "None" /\ a.aval_shape[k] = "b")
    IN /\ call_out.exc = "none" => allowed
       /\ ~allowed => call_out.exc = "AssertionError"

\* C22 amended: as above, and a dimension that is known in the value and
\* symbolic in the aval is also accepted when the dimension variable cannot
\* be evaluated to an integer or evaluates to the known size; the dtypes
\* must agree as well.
C22_KnownSizeAgainstVariable ==
  (/\ call_out.called /\ call_args.op = "TensorFlowTracer"
   /\ call_args.jax_enable_checks /\ call_args.is_tensor
   /\ ~call_args.abstract_unit) =>
    LET a == call_args
        allowed ==
          /\ Len(a.aval_shape) = Len(a.val_shape)
          /\ a.same_dtype
          /\ \A k \in 1..Len(a.aval_shape) :
               \/ (a.val_shape[k] # "None" /\ a.aval_shape[k] = a.val_shape[k])
               \/ (a.val_shape[k] = "None" /\ a.aval_shape[k] = "b")
               \/ (/\ a.val_shape[k] # "None" /\ a.aval_shape[k] = "b"
                   /\ a.aval_int \in {"TypeError", a.val_shape[k]})
    IN /\ call_out.exc = "none" <=> allowed
       /\ ~allowed => call_out.exc = "AssertionError"

\* A tracer was constructed for a tensor of shape (2, None) and an aval of
\* shape (b, b), b not evaluable.
C22_Witness ==
  /\ call_out.called /\ call_args.op = "TensorFlowTracer"
  /\ call_args.jax_enable_checks /\ call_args.is_tensor
  /\ ~call_args.abstract_unit
  /\ call_args.val_shape = <<"2", "None">>
  /\ call_args.aval_shape = <<"b", "b">>
  /\ call_args.aval_int = "TypeError"
  /\ call_out.exc = "none"

(***************************************************************************)
(* process_primitive: the order of the lookup and of abstract_eval.        *)
(***************************************************************************)
\* C23 as stated: abstract_eval is invoked before the converter is looked
\* up: when the error for a primitive without converter is raised,
\* abstract_eval has been invoked; and no converter is invoked before
\* abstract_eval has returned.
C23_AbstractEvalThenLookup ==
  (last_op.primitive # "none") =>
     /\ (last_op.impl = <<>> /\ last_op.error.type = "NotImplementedError")
          => last_op.abstract_eval_called
     /\ last_op.backend_op # "none" => last_op.abstract_eval_called

\* C23 amended: the converter is looked up before abstract_eval is invoked:
\* when the error for a primitive without converter is raised, abstract_eval
\* has not been invoked and there is no abstract result; and no converter is
\* invoked before abstract_eval has returned.
C23_LookupThenAbstractEval ==
  (last_op.primitive # "none") =>
     /\ (last_op.impl = <<>>) =>
          /\ last_op.error.type = "NotImplementedError"
          /\ ~last_op.abstract_eval_called
          /\ last_op.out_aval = <<>>
          /\ last_op.backend_op = "none"
     /\ (last_op.impl # <<>>) => last_op.abstract_eval_called
     /\ last_op.backend_op # "none" =>
          /\ last_op.abstract_eval_called
          /\ last_op.out_aval = abstract_eval(eqn.primitive, eqn.args_avals)

\* The primitive clz, which has no converter, was dispatched with two
\* operands and the error was raised.
C23_Witness ==
  /\ last_op.primitive = "clz"
  /\ last_op.impl = <<>>
  /\ exc = "NotImplementedError"
  /\ ~last_op.abstract_eval_called

(***************************************************************************)
(* The converters that have no realization without XLA.                    *)
(***************************************************************************)
ScatterPrims == {"scatter", "scatter_min", "scatter_max", "scatter_mul",
                 "scatter_add"}
XlaOnlyPrims == {"reduce", "reduce_window", "sort", "select_and_scatter_add",
                 "rng_bit_generator"} \cup ScatterPrims
GatherScatterModes == {"CLIP", "FILL_OR_DROP", "PROMISE_IN_BOUNDS"}

\* What a converter did: the error raised and, in order, the nested
\* interpretations and backend ops made before it returned or raised.
Did(error, events) == [error |-> error, events |-> events]
Raised(type, msg) == [type |-> type, primitive_name |-> "", extra_msg |-> msg]

\* _reduce
reduce(a) ==
  IF ~enable_xla THEN Did(xla_disabled_error("reduce", ""), <<>>)
  ELSE IF ~a.consts_empty THEN Did(Raised("AssertionError", "consts"), <<>>)
  ELSE Did(NoError, <<"_interpret_jaxpr", "tfxla.variadic_reduce">>)

\* _reduce_window
reduce_window(a) ==
  IF ~a.consts_empty THEN Did(Raised("AssertionError", "consts"), <<>>)
  ELSE IF ~enable_xla THEN Did(xla_disabled_error("reduce_window", ""), <<>>)
  ELSE Did(NoError, <<"_interpret_jaxpr", "tfxla.reduce_window">>)

\* _scatter, registered for every scatter primitive
scatter(a) ==
  IF a.mode = "CLIP"
  THEN Did(Raised("NotImplementedError",
                  "CLIP scatter mode not implemented in jax2tf"), <<>>)
  ELSE IF ~a.consts_empty THEN Did(Raised("AssertionError", "consts"), <<>>)
  ELSE IF ~enable_xla THEN Did(xla_disabled_error("scatter", ""), <<>>)
  ELSE Did(NoError, <<"_interpret_jaxpr", "tfxla.scatter">>)

\* _select_and_scatter_add under bool_to_int8(argnums=(0, 1)): boolean
\* arguments are cast before the converter is entered.
select_and_scatter_add(a) ==
  LET casts == IF a.bool_operands THEN <<"tf.cast", "tf.cast">> ELSE <<>>
  IN IF ~enable_xla
     THEN Did(xla_disabled_error("select_and_scatter_add", ""), casts)
     ELSE Did(NoError,
              casts \o <<"tfxla.select_and_scatter">>
                    \o (IF a.bool_operands THEN <<"tf.cast">> ELSE <<>>))

\* _rng_bit_generator
rng_bit_generator(a) ==
  IF ~enable_xla THEN Did(xla_disabled_error("rng_bit_generator", ""), <<>>)
  ELSE Did(NoError, <<"tfxla.rng_bit_generator">>)

XlaOnlyArgs ==
  [op : {"xla_only"}, primitive : XlaOnlyPrims, mode : GatherScatterModes,
   consts_empty : BOOLEAN, bool_operands : BOOLEAN]

\* The converter registered for call_args.primitive is invoked.
xla_only_converter ==
  /\ InBody
  /\ call_args # NoCall
  /\ call_args.op = "xla_only"
  /\ ~call_out.called
  /\ LET a == call_args
         r == IF a.primitive = "reduce" THEN reduce(a)
              ELSE IF a.primitive = "reduce_window" THEN reduce_window(a)
              ELSE IF a.primitive \in ScatterPrims THEN scatter(a)
              ELSE IF a.primitive = "sort"
              THEN LET t == sort(<<"x">>)
                   IN Did(t.error, IF t.backend_op = "none" THEN <<>>
                                   ELSE <<"_convert_jax_impl", t.backend_op>>)
              ELSE IF a.primitive = "select_and_scatter_add"
              THEN select_and_scatter_add(a)
              ELSE rng_bit_generator(a)
     IN /\ call_out' = [called |-> TRUE, enable_xla |-> enable_xla,
                        error |-> r.error, events |-> r.events]
        /\ exc' = r.error.type
  /\ UNCHANGED <<tls, stack, heap, ids, lifts, dispatch_state, while_state,
                 thread_state, cond_args, cond_out, reduce_args, reduce_out,
                 call_args>>

NextXlaOnly ==
  \/ \E x \in BOOLEAN, ok \in {TRUE} : converted_fun(x, ok)
  \/ check_arg
  \/ \E env \in {{}} : args_to_avals_and_env(env)
  \/ enter_try
  \/ interpret_fun
  \/ return_interpret_fun
  \/ finally_converted_fun
  \/ return_converted_fun
  \/ xla_only_converter
  \/ unwind
  \/ propagate_to_caller

SpecXlaOnly == InitCall(XlaOnlyArgs) /\ [][NextXlaOnly]_vars

\* C24 as stated: with enable_xla False the converters of reduce,
\* reduce_window, the scatter primitives, sort, select_and_scatter_add and
\* rng_bit_generator raise the disabled-path error naming the primitive
\* before any nested interpretation and any backend op; with enable_xla True
\* no disabled-path error is constructed.
C24_DisabledPathErrorFirst ==
  (call_out.called /\ call_args.op = "xla_only") =>
    IF ~call_out.enable_xla
    THEN /\ call_out.error.type = "NotImplementedError"
         /\ call_out.error.primitive_name =
              IF call_args.primitive \in ScatterPrims THEN "scatter"
              ELSE call_args.primitive
         /\ call_out.events = <<>>
    ELSE /\ call_out.error.primitive_name = ""
         /\ call_out.error.type = "AssertionError"
              => call_out.error.extra_msg = "consts"

\* C24 amended: as stated, except that a scatter in mode CLIP raises the
\* NotImplementedError of the CLIP mode, a reduce_window or scatter whose
\* sub-computation has constants fails its assertion, and boolean operands
\* of select_and_scatter_add are cast before the error is raised.
C24_DisabledPathErrorAfterEntryChecks ==
  (call_out.called /\ call_args.op = "xla_only") =>
    LET a == call_args
        o == call_out
    IN IF o.enable_xla
       THEN /\ o.error.primitive_name = ""
            /\ o.error.type = "AssertionError" => o.error.extra_msg = "consts"
       ELSE IF a.primitive \in ScatterPrims /\ a.mode = "CLIP"
       THEN /\ o.error.type = "NotImplementedError"
            /\ o.error.primitive_name = ""
            /\ o.events = <<>>
       ELSE IF a.primitive \in ScatterPrims \cup {"reduce_window"}
               /\ ~a.consts_empty
       THEN /\ o.error.type = "AssertionError"
            /\ o.events = <<>>
       ELSE /\ o.error.type = "NotImplementedError"
            /\ o.error.primitive_name =
                 IF a.primitive \in ScatterPrims THEN "scatter"
                 ELSE a.primitive
            /\ o.events =
                 IF a.primitive = "select_and_scatter_add" /\ a.bool_operands
                 THEN <<"tf.cast", "tf.cast">> ELSE <<>>

\* A sort was refused with XLA disabled, and the error is passing the
\* conversion's scopes.
C24_Witness ==
  /\ call_out.called /\ call_args.op = "xla_only"
  /\ call_args.primitive = "sort"
  /\ ~call_out.enable_xla
  /\ call_out.error.primitive_name = "sort"
  /\ call_out.events = <<>>
  /\ exc = "NotImplementedError"
  /\ stack = <<>>
  /\ enable_xla

(***************************************************************************)
(* The gather converter: the realizations tried with XLA disabled.         *)
(***************************************************************************)
\* What the slice-based realization does on the operands at hand: it
\* returns, or a TF op or _eval_shape raises.
SliceOutcomes == {"none", "NotImplementedError", "ValueError", "TypeError"}

GatherArgs ==
  [op : {"gather"}, mode : GatherScatterModes,
   start_indices_rank : 0..MaxRank,
   slice_outcome : SliceOutcomes,
   tf_gather_applies : BOOLEAN,    \* the tests of _gather_using_tf_gather pass
   bool_operand : BOOLEAN]

\* A gather that goes on to the gather-based realization after any error of
\* the slice-based one.
slice_error_any(outcome) == outcome # "none"
\* except NotImplementedError: pass
slice_error_caught(outcome) == outcome = "NotImplementedError"

\* _gather under bool_to_int8(argnums=[0])
gather(a) ==
  LET casts == IF a.bool_operand THEN <<"tf.cast">> ELSE <<>>
      tried_slice == a.start_indices_rank = 1
      slice == IF tried_slice THEN <<"_gather_using_tf_slice">> ELSE <<>>
  IN IF a.mode = "FILL_OR_DROP"
     THEN Did(Raised("NotImplementedError",
                     "FILL_OR_DROP gather mode is not implemented in jax2tf"),
              casts)
     ELSE IF enable_xla
     THEN Did(NoError, casts \o <<"tfxla.gather">> \o casts)
     ELSE IF tried_slice /\ a.slice_outcome = "none"
     THEN Did(NoError, casts \o slice \o casts)
     ELSE IF tried_slice /\ ~slice_error_caught(a.slice_outcome)
     THEN Did(Raised(a.slice_outcome, "_gather_using_tf_slice"),
              casts \o slice)
     ELSE IF a.tf_gather_applies
     THEN Did(NoError, casts \o slice \o <<"_gather_using_tf_gather">> \o casts)
     ELSE Did(xla_disabled_error("gather", "unsupported"),
              casts \o slice \o <<"_gather_using_tf_gather">>)

\* The converter of gather is invoked.
gather_converter ==
  /\ InBody
  /\ call_args # NoCall
  /\ call_args.op = "gather"
  /\ ~call_out.called
  /\ LET r == gather(call_args)
     IN /\ call_out' = [called |-> TRUE, enable_xla |-> enable_xla,
                        error |-> r.error, events |-> r.events]
        /\ exc' = r.error.type
  /\ UNCHANGED <<tls, stack, heap, ids, lifts, dispatch_state, while_state,
                 thread_state, cond_args, cond_out, reduce_args, reduce_out,
                 call_args>>

NextGather ==
  \/ \E x \in BOOLEAN, ok \in {TRUE} : converted_fun(x, ok)
  \/ check_arg
  \/ \E env \in {{}} : args_to_avals_and_env(env)
  \/ enter_try
  \/ interpret_fun
  \/ return_interpret_fun
  \/ finally_converted_fun
  \/ return_converted_fun
  \/ gather_converter
  \/ unwind
  \/ propagate_to_caller

SpecGather == InitCall(GatherArgs) /\ [][NextGather]_vars

\* C25: with enable_xla False and a mode other than FILL_OR_DROP the
\* slice-based realization is tried, and tried first, exactly when
\* start_indices has rank 1; the gather-based one is tried exactly when the
\* slice-based one was not tried or raised NotImplementedError; another error
\* of the slice-based one is the error of the converter; with mode
\* FILL_OR_DROP, NotImplementedError is raised before either realization
\* whatever enable_xla is.
C25_GatherFallback ==
  (call_out.called /\ call_args.op = "gather") =>
    LET a == call_args
        o == call_out
        Tried(r) == \E k \in 1..Len(o.events) : o.events[k] = r
        Before(r, q) ==
          \A k \in 1..Len(o.events), l \in 1..Len(o.events) :
            (o.events[k] = r /\ o.events[l] = q) => k < l
    IN /\ a.mode = "FILL_OR_DROP" =>
            /\ o.error.type = "NotImplementedError"
            /\ o.error.primitive_name = ""
            /\ ~Tried("_gather_using_tf_slice")
            /\ ~Tried("_gather_using_tf_gather")
            /\ ~Tried("tfxla.gather")
       /\ (a.mode # "FILL_OR_DROP" /\ ~o.enable_xla) =>
            /\ Tried("_gather_using_tf_slice") <=> a.start_indices_rank = 1
            /\ Before("_gather_using_tf_slice", "_gather_using_tf_gather")
            /\ Tried("_gather_using_tf_gather") <=>
                 \/ ~Tried("_gather_using_tf_slice")
                 \/ a.slice_outcome = "NotImplementedError"
            /\ (/\ Tried("_gather_using_tf_slice")
                /\ a.slice_outcome \notin {"none", "NotImplementedError"}) =>
                 /\ o.error.type = a.slice_outcome
                 /\ o.error.extra_msg = "_gather_using_tf_slice"
            /\ ~Tried("tfxla.gather")

\* With XLA disabled the slice-based realization raised NotImplementedError
\* and the gather-based one returned; the conversion has ended.
C25_Witness ==
  /\ call_out.called /\ call_args.op = "gather"
  /\ ~call_out.enable_xla
  /\ call_args.slice_outcome = "NotImplementedError"
  /\ call_out.events = <<"_gather_using_tf_slice", "_gather_using_tf_gather">>
  /\ call_out.error.type = "none"
  /\ stack = <<>>

(***************************************************************************)
(* A conversion started while a shape environment is in place.             *)
(***************************************************************************)
\* C26: when a conversion is started with shape_env not empty, the call
\* fails with the AssertionError of its entry, this error is the one that
\* leaves the call, and shape_env is after the failed call what it was
\* before it.
C26_FailedEntryLeavesShapeEnv ==
  [][(/\ exc = "AssertionError"
      /\ stack # <<>>
      /\ Top.kind = "converted_fun"
      /\ Top.pc = "in_try"
      /\ ~Top.prev_enable_xla.bound
      /\ Len(stack') < Len(stack)) =>
        /\ exc' = "AssertionError"
        /\ shape_env' = shape_env
        /\ shape_env' # {}]_vars

(***************************************************************************)
(* The gradient function attached by convert(with_gradient=True).          *)
(***************************************************************************)
ConvertArgs == [op : {"convert"}, enable_xla : BOOLEAN, with_gradient : BOOLEAN]

\* tf.custom_gradient: the gradient function is attached when the wrapped
\* function is called.
custom_gradient ==
  /\ AtPc("in_try")
  /\ call_args.with_gradient
  /\ ~Top.grad_of.is_grad
  /\ ~call_out.called
  /\ call_out' = [called |-> TRUE, enable_xla |-> Top.enable_xla]
  /\ UNCHANGED <<tls, stack, exc, heap, ids, lifts, dispatch_state,
                 while_state, thread_state, cond_args, cond_out, reduce_args,
                 reduce_out, call_args>>

\* converted_grad_fn: TF calls the gradient function, which converts the
\* vjp with convert(fun_vjp_jax, with_gradient=False, polymorphic_shapes=...)
\* and calls the result; enable_xla is not passed and has its default, True.
converted_grad_fn ==
  /\ call_out.called
  /\ converted_fun_of(TRUE, TRUE,
                      [is_grad |-> TRUE, enable_xla |-> call_out.enable_xla])

NextGrad ==
  \/ converted_fun(call_args.enable_xla, TRUE)
  \/ check_arg
  \/ \E env \in {{}} : args_to_avals_and_env(env)
  \/ enter_try
  \/ custom_gradient
  \/ interpret_fun
  \/ return_interpret_fun
  \/ finally_converted_fun
  \/ return_converted_fun
  \/ converted_grad_fn
  \/ converter_raises
  \/ unwind
  \/ propagate_to_caller

SpecGrad == InitCall(ConvertArgs) /\ [][NextGrad]_vars

\* C27: while the gradient function attached by a conversion made with
\* enable_xla False is interpreted, the thread-local enable_xla is False.
C27_GradientKeepsEnableXla ==
  \A i \in 1..Len(stack) :
    (/\ stack[i].kind = "converted_fun"
     /\ stack[i].grad_of.is_grad
     /\ ~stack[i].grad_of.enable_xla
     /\ stack[i].pc = "interpreting"
     /\ i = InnermostOf("converted_fun")
     /\ exc = "none") => ~enable_xla

(***************************************************************************)
(* include_xla_op_metadata and the dispatch of primitives.                 *)
(***************************************************************************)
\* Conversions, nested through call_tf and with nested calls, of a program
\* with one equation.
NextMetadata ==
  \/ \E x \in BOOLEAN, ok \in {TRUE} : converted_fun(x, ok)
  \/ check_arg
  \/ \E env \in {{}} : args_to_avals_and_env(env)
  \/ enter_try
  \/ interpret_fun
  \/ return_interpret_fun
  \/ finally_converted_fun
  \/ return_converted_fun
  \/ \E c \in {"xla_call"} : process_call(c)
  \/ return_process_call
  \/ enter_inside_call_tf
  \/ exit_inside_call_tf
  \/ unwind
  \/ propagate_to_caller
  \/ eval_eqn

SpecMetadata == InitDispatch /\ [][NextMetadata]_vars

MaxInsertions == 3
\* class SpecSync(IntEnum)
OUT_OF_SYNC == 0
DIM_PERMUTE == 1
IN_SYNC == 2

\* The mesh axes one dimension is partitioned over: a tuple, () for none.
AxisTuples == {<<>>, <<"x">>, <<"y">>}
UserSpecs ==
  [op : {"ParsedPartitionSpec"},
   partitions : UNION {[1..n -> AxisTuples] : n \in 0..1}]

\* ParsedPartitionSpec.__init__(user_spec, partitions, sync); the fields
\* inserted and n tell what insert_axis_partitions has been given so far.
ParsedPartitionSpec(user_spec, partitions, sync, inserted, n) ==
  [called |-> TRUE, unsafe_user_spec |-> user_spec, partitions |-> partitions,
   sync |-> sync, inserted |-> inserted, n |-> n]

\* ParsedPartitionSpec.from_user_input on a PartitionSpec
from_user_input ==
  /\ call_args # NoCall
  /\ call_args.op = "ParsedPartitionSpec"
  /\ ~call_out.called
  /\ call_out' = ParsedPartitionSpec(call_args.partitions,
                                     call_args.partitions, IN_SYNC, FALSE, 0)
  /\ UNCHANGED <<tls, stack, exc, heap, ids, lifts, dispatch_state,
                 while_state, thread_state, cond_args, cond_out, reduce_args,
                 reduce_out, call_args>>

\* tuple_insert(t, idx, val)
tuple_insert(t, idx, val) ==
  SubSeq(t, 1, idx) \o <<val>> \o SubSeq(t, idx + 1, Len(t))

\* new_sync in insert_axis_partitions
new_sync(old_sync, val) == IF val = <<>> THEN DIM_PERMUTE ELSE OUT_OF_SYNC

\* ParsedPartitionSpec.insert_axis_partitions(dim, val); the object at hand
\* becomes the one returned.
insert_axis_partitions(dim, val) ==
  /\ call_out.called
  /\ call_args.op = "ParsedPartitionSpec"
  /\ call_out.n < MaxInsertions
  /\ LET self == call_out
         too_short == dim - Len(self.partitions)
         parts == IF too_short > 0
                  THEN self.partitions \o [k \in 1..too_short |-> <<>>]
                  ELSE self.partitions
     IN call_out' = ParsedPartitionSpec(self.unsafe_user_spec,
                                        tuple_insert(parts, dim, val),
                                        new_sync(self.sync, val),
                                        self.inserted \/ val # <<>>,
                                        self.n + 1)
  /\ UNCHANGED <<tls, stack, exc, heap, ids, lifts, dispatch_state,
                 while_state, thread_state, cond_args, cond_out, reduce_args,
                 reduce_out, call_args>>

\* ParsedPartitionSpec.unsynced_user_spec(min_sync) and .user_spec
unsynced_user_spec(self, min_sync) ==
  IF self.sync < min_sync THEN [raises |-> "AssertionError"]
  ELSE [raises |-> "none", spec |-> self.unsafe_user_spec]
user_spec(self) == unsynced_user_spec(self, IN_SYNC)

NextPartitionSpec ==
  \/ from_user_input
  \/ \E dim \in 0..1, val \in AxisTuples : insert_axis_partitions(dim, val)

SpecPartitionSpec == InitCall(UserSpecs) /\ [][NextPartitionSpec]_vars

\* C29: insert_axis_partitions never raises the sync level; after insertions
\* of which one at least gave a non-empty tuple of mesh axes the spec is
\* OUT_OF_SYNC, and unsynced_user_spec(DIM_PERMUTE) and user_spec raise.
C29_SyncNeverIncreases ==
  /\ []((call_out.called /\ call_args.op = "ParsedPartitionSpec"
         /\ call_out.inserted) =>
          /\ call_out.sync = OUT_OF_SYNC
          /\ unsynced_user_spec(call_out, DIM_PERMUTE).raises = "AssertionError"
          /\ user_spec(call_out).raises = "AssertionError")
  /\ [][(call_out.called /\ call_out'.called) =>
          call_out'.sync <= call_out.sync]_vars

(***************************************************************************)
(* Integer division and remainder: _div, _rem.                             *)
(***************************************************************************)
\* The width of the signed integer dtype of the operands (int8).
IntBits == 8
IntMin == 0 - 2^(IntBits - 1)
IntMax == 2^(IntBits - 1) - 1
\* The value of the dtype that a result of the TF op is stored as.
wrap(x) == ((x - IntMin) % 2^IntBits) + IntMin

\* tf.math.floordiv, tf.math.floormod, tf.math.sign, tf.math.abs
floordiv(a, b) ==
  wrap(IF b > 0 THEN a \div b ELSE (0 - a) \div (0 - b))
floormod(a, b) ==
  LET q == IF b > 0 THEN a \div b ELSE (0 - a) \div (0 - b)
  IN wrap(a - b * q)
sign(x) == IF x > 0 THEN 1 ELSE IF x < 0 THEN 0 - 1 ELSE 0
abs(x) == wrap(IF x < 0 THEN 0 - x ELSE x)

\* _div on integer operands
div(lhs, rhs) ==
  LET quotient == floordiv(lhs, rhs)
      select == sign(lhs) # sign(rhs) /\ floormod(lhs, rhs) # 0
  IN IF select THEN wrap(quotient + 1) ELSE quotient

\* _rem
rem(lhs, rhs) == wrap(sign(lhs) * floormod(abs(lhs), abs(rhs)))

DivRemArgs ==
  [op : {"div_rem"}, lhs : IntMin..IntMax, rhs : (IntMin..IntMax) \ {0}]

\* The converters of div and rem are applied to the operands.
div_rem ==
  /\ call_args # NoCall
  /\ call_args.op = "div_rem"
  /\ ~call_out.called
  /\ call_out' = [called |-> TRUE,
                  div |-> div(call_args.lhs, call_args.rhs),
                  rem |-> rem(call_args.lhs, call_args.rhs)]
  /\ UNCHANGED <<tls, stack, exc, heap, ids, lifts, dispatch_state,
                 while_state, thread_state, cond_args, cond_out, reduce_args,
                 reduce_out, call_args>>

NextDivRem == div_rem

SpecDivRem == InitCall(DivRemArgs) /\ [][NextDivRem]_vars

\* C30: for all lhs and all rhs # 0 of the dtype, _div gives the quotient
\* truncated toward zero, _rem has the sign of lhs or is 0 and is smaller
\* than rhs in absolute value, and _div * rhs + _rem = lhs.
C30_TruncatedDivision ==
  (call_out.called /\ call_args.op = "div_rem") =>
    LET lhs == call_args.lhs
        rhs == call_args.rhs
        Abs(x) == IF x < 0 THEN 0 - x ELSE x
        truncated == sign(lhs) * sign(rhs) * (Abs(lhs) \div Abs(rhs))
    IN /\ call_out.div = wrap(truncated)
       /\ call_out.rem = 0 \/ sign(call_out.rem) = sign(lhs)
       /\ Abs(call_out.rem) < Abs(rhs)
       /\ wrap(call_out.div * rhs + call_out.rem) = lhs

=============================================================================
